---- MODULE Spec2Model ----
(***************************************************************************)
(* cfchat: the per-room broadcast relay (ChatRoom Durable Object and the   *)
(* /ws/:room route) and the client-side chunked file transfer of           *)
(* src/src/worker.js.                                                      *)
(*                                                                         *)
(* Spec         the relay: accepted sockets, broadcasts, closes.           *)
(* SpecRoute    the relay: every request to /ws/:room.                     *)
(* SpecChunks   the receiver's chunk reassembly (handleFileChunk).         *)
(* SpecTotals   the same, with chunks that disagree on a transfer's total. *)
(* SpecSend     sendFile / sendFileInChunks, and a peer that reassembles.  *)
(* SpecIncoming handleIncoming on the envelopes a socket delivers.         *)
(* SpecHistory  text envelopes and the history, across passphrase changes. *)
(* SpecSession  applyPassword, connect, the socket listeners, reconnects   *)
(*              and a file transfer under way.                             *)
(* SpecRetry    SpecSession's reconnects under fair scheduling.            *)
(* SpecConverge the passphrase field and its debounce timer, under fair    *)
(*              scheduling.                                                *)
(***************************************************************************)
EXTENDS Integers, Sequences, FiniteSets, Bags, TLC

(***************************************************************************)
(* Bounds of the model.                                                    *)
(***************************************************************************)
\* sockets accepted over a run of the relay
MaxSockets == 3
\* frames handled by webSocketMessage over a run of the relay
MaxMessages == 2
\* chunks handed to handleFileChunk over a run of the client
MaxArrivals == 4
\* calls of applyPassword that get past its early return, over a run
MaxApply == 2
\* WebSocket objects the client makes over a run
MaxClientSockets == 3
\* files handed to sendFile over a run
MaxFiles == 1
\* envelopes a socket hands to the message listener over a run
MaxIncoming == 2
\* UTF-16 units of a file's name, and of its MIME type
MaxNameLength == 255

(***************************************************************************)
(* Program constants.                                                      *)
(***************************************************************************)
\* this.maxMessageSize = 1000000
maxMessageSize == 1000000
\* the {64} of /^[a-f0-9]{64}$/i
RoomIdLength == 64
\* const MAX_FILE_BYTES = 5 * 1024 * 1024
MAX_FILE_BYTES == 5 * 1024 * 1024
\* const MAX_CHUNK_BYTES = 240 * 1024
MAX_CHUNK_BYTES == 240 * 1024
\* the delay of scheduleReconnect's setTimeout
RECONNECT_DELAY == 2000
\* const MAX_HISTORY = 200
MAX_HISTORY == 200

VARIABLES
    \* ---- relay (edge side) ----
    instances,    \* object ids for which env.CHAT_ROOM.get(id) made a stub
    accepted,     \* [room -> sequence of sockets]: state.getWebSockets() of each room
    joined,       \* history: sequence over sockets, the room that accepted the socket
    readyState,   \* sequence over sockets: "OPEN" or "CLOSED"
    closeCode,    \* sequence over sockets: 0 while open, else the close code
    inbox,        \* sequence over sockets: the frames socket.send() delivered
    response,     \* the Response of the last HTTP request
    handled,      \* history: one record per webSocketMessage call
    \* ---- client (receiving side) ----
    cryptoKey,       \* the key derived from the passphrase in use
    incomingChunks,  \* Map: transfer id -> assembly record (a reference into heap)
    heap,            \* the assembly records ever created, by reference
    pending,         \* bag of handleFileChunk calls awaiting decryptBytes
    messagesEl,      \* the file messages addFileMessage rendered, in order
    unhandled,       \* transfer ids of handleFileChunk calls that threw
    arrivals,        \* history: how often each chunk was handed to handleFileChunk
    lapsed,          \* history: <<id, index>> of the chunks not yet handed over when
                     \* a timer of their transfer fired
    \* ---- client (session) ----
    passwordVersion, \* the counter applyPassword stamps its calls with
    currentPassword, \* the passphrase of the latest applyPassword call
    currentRoomId,   \* the room fingerprint in use, << >> before the first one
    clientWs,        \* the variable ws: the current WebSocket (an index of
                     \* webSockets), 0 for null
    webSockets,      \* the WebSocket objects made so far: [url, readyState]
    statusEl,        \* the state setStatus showed last
    reconnectTimer,  \* the timer of scheduleReconnect: [state, delay]
    applyRuns,       \* applyPassword calls waiting at one of their awaits
    sendRuns,        \* the sendFile calls so far, each where it stands: [file, at,
                     \* id, total, index, key], the room it started in and
                     \* whether no applyPassword call was under way then
    sent,            \* history: the ws.send calls, [socket, payload], in order
    messageStore,    \* the text envelopes of the room in view
    localStorage,    \* [key -> value]: the passphrase and the history of each room
    renderRuns,      \* renderHistory calls under way: the items still to render
    incoming,        \* handleIncoming calls awaiting decryptBytes / decryptText:
                     \* [payload, kind, bytes], and the room in use at the call
    received,        \* history: how many envelopes the message listener was handed
    secretInput,     \* secretInput.value, the passphrase field
    passwordTimer    \* the timer of the field's input listener: [state, value]

relayVars == <<instances, accepted, joined, readyState, closeCode, inbox, response, handled>>

sessionVars == <<passwordVersion, currentPassword, currentRoomId, clientWs, webSockets, statusEl,
                 reconnectTimer, applyRuns, sendRuns, sent, messageStore, localStorage,
                 renderRuns,
                 incoming, received, secretInput, passwordTimer>>

fieldVars == <<secretInput, passwordTimer>>

clientVars == <<cryptoKey, incomingChunks, heap, pending, messagesEl, unhandled, arrivals,
                lapsed, sessionVars>>

vars == <<instances, accepted, joined, readyState, closeCode, inbox, response, handled,
          cryptoKey, incomingChunks, heap, pending, messagesEl, unhandled, arrivals,
          lapsed, sessionVars>>

(***************************************************************************)
(* Strings as sequences of one-character strings.                          *)
(***************************************************************************)
Rep(c, n) == [i \in 1..n |-> c]

HexDigits == {"0", "1", "2", "3", "4", "5", "6", "7", "8", "9"}
HexLower == {"a", "b", "c", "d", "e", "f"}
HexUpper == {"A", "B", "C", "D", "E", "F"}

\* The room identifiers requests are made with: the path after '/ws/'.
LowerId == [i \in 1..RoomIdLength |-> IF i % 2 = 0 THEN "0" ELSE "f"]
UpperId == Rep("A", RoomIdLength)
ShortId == Rep("a", RoomIdLength - 1)
LongId == Rep("a", RoomIdLength + 1)
NonHexId == [i \in 1..RoomIdLength |-> IF i = RoomIdLength THEN "g" ELSE "a"]
EmptyId == << >>

RoomIdList == <<LowerId, UpperId, ShortId, LongId, NonHexId, EmptyId>>

RoomIds == {RoomIdList[i] : i \in DOMAIN RoomIdList}

\* env.CHAT_ROOM.idFromName(roomId): one object id per name
idFromName(roomId) == CHOOSE i \in DOMAIN RoomIdList : RoomIdList[i] = roomId

\* Values of the request's Upgrade header; "" is an absent header.
UpgradeHeaders == {"websocket", "WebSocket", ""}

(***************************************************************************)
(* isValidRoomId: /^[a-f0-9]{64}$/i.test(roomId)                           *)
(***************************************************************************)
\* Canonicalize of the regular expression's ignoreCase flag
Canonicalize(ch) ==
    CASE ch = "a" -> "A" [] ch = "b" -> "B" [] ch = "c" -> "C"
      [] ch = "d" -> "D" [] ch = "e" -> "E" [] ch = "f" -> "F"
      [] ch = "g" -> "G"
      [] OTHER -> ch

\* the class [a-f0-9]
CharClass == HexLower \cup HexDigits

\* the class as the ignoreCase flag compares it
CanonicalClass == {Canonicalize(c) : c \in CharClass}

ClassMatches(ch, ignoreCase) ==
    IF ignoreCase THEN Canonicalize(ch) \in CanonicalClass ELSE ch \in CharClass

isValidRoomId_AnyLength(roomId) ==
    \A i \in 1..Len(roomId) : ClassMatches(roomId[i], TRUE)

isValidRoomId(roomId) ==
    /\ Len(roomId) = RoomIdLength
    /\ \A i \in 1..Len(roomId) : ClassMatches(roomId[i], TRUE)

\* the identifiers handleWebSocket lets through
ValidRoomIds == {roomId \in RoomIds : isValidRoomId(roomId)}

(***************************************************************************)
(* Frames.  A frame's content is a run-length sequence: Run(u, n) is n     *)
(* repeats of unit u.  A string frame holds UTF-16 code units, a binary    *)
(* frame holds bytes; "FF" is a byte that is not valid UTF-8.              *)
(***************************************************************************)
Run(u, n) == [unit |-> u, count |-> n]

StrSmall == [binary |-> FALSE, data |-> <<Run("a", 3)>>]
StrLimit == [binary |-> FALSE, data |-> <<Run("a", maxMessageSize)>>]
StrOver == [binary |-> FALSE, data |-> <<Run("a", maxMessageSize + 1)>>]
BinLimit == [binary |-> TRUE, data |-> <<Run("a", maxMessageSize - 1), Run("FF", 1)>>]

Frames == {StrSmall, StrLimit, StrOver, BinLimit}

\* new TextDecoder().decode(message): an invalid byte becomes U+FFFD
DecodeByte(b) == IF b = "FF" THEN "\\uFFFD" ELSE b

TextDecoder_decode(bytes) ==
    [i \in DOMAIN bytes |-> Run(DecodeByte(bytes[i].unit), bytes[i].count)]

\* const text = typeof message === 'string' ? message : new TextDecoder().decode(message)
TextOf(message) ==
    IF ~message.binary THEN message.data ELSE TextDecoder_decode(message.data)

RECURSIVE SumCounts(_)
SumCounts(runs) ==
    IF runs = << >> THEN 0 ELSE Head(runs).count + SumCounts(Tail(runs))

\* text.length
Length(text) == SumCounts(text)

TooLarge_OffByOne(text) == Length(text) >= maxMessageSize

\* text.length > this.maxMessageSize
TooLarge(text) == Length(text) > maxMessageSize

(***************************************************************************)
(* The relay's sockets.                                                    *)
(***************************************************************************)
Sockets == 1..Len(readyState)

getWebSockets_AllRooms(room) ==
    [i \in 1..Len(readyState) |-> i]

\* this.state.getWebSockets() of the room's Durable Object
getWebSockets(room) == accepted[room]

Range(seq) == {seq[i] : i \in DOMAIN seq}

\* the sockets of a room that are accepted and still open
Live(room) == {s \in Range(accepted[room]) : readyState[s] = "OPEN"}

RoomOf(s) == CHOOSE r \in instances : s \in Range(accepted[r])

IsListed(s) == \E r \in instances : s \in Range(accepted[r])

IsPeer_Everyone(socket, ws) == TRUE

\* if (socket !== ws)
IsPeer(socket, ws) == socket # ws

send_Front(box, socket, entry) ==
    [box EXCEPT ![socket] = <<entry>> \o @]

\* socket.send(text) on an open socket
send(box, socket, entry) ==
    [box EXCEPT ![socket] = Append(@, entry)]

RECURSIVE Forward(_, _, _, _)
RECURSIVE OnSendError(_, _, _, _)

OnSendError_Abort(rest, ws, entry, box) == box

SendThrows_Never(socket) == FALSE

\* socket.send(text) throws on a socket that is closed
SendThrows(socket) == readyState[socket] # "OPEN"

\* catch (error) { }: the failure is swallowed and the loop goes on
OnSendError(rest, ws, entry, box) == Forward(rest, ws, entry, box)

\* for (const socket of sockets) { if (socket !== ws) { try { socket.send(text) } catch {} } }
Forward(sockets, ws, entry, box) ==
    IF sockets = << >> THEN box
    ELSE LET socket == Head(sockets)
             rest == Tail(sockets)
         IN  IF ~IsPeer(socket, ws) THEN Forward(rest, ws, entry, box)
             ELSE IF SendThrows(socket)
                  THEN OnSendError(rest, ws, entry, box)
                  ELSE Forward(rest, ws, entry, send(box, socket, entry))

(***************************************************************************)
(* Responses.                                                              *)
(***************************************************************************)
createErrorResponse(message, status, details) ==
    [status |-> status, error |-> message, details |-> details]

UpgradeResponse == [status |-> 101, error |-> "", details |-> ""]

NoResponse == [status |-> 0, error |-> "", details |-> ""]

\* request.headers.get('Upgrade') === 'websocket'
IsUpgrade_Always(upgrade) == TRUE

IsUpgrade(upgrade) == upgrade = "websocket"

(***************************************************************************)
(* GET /ws/:room, handleWebSocket then ChatRoom.fetch                      *)
(***************************************************************************)
\* env.CHAT_ROOM.get(env.CHAT_ROOM.idFromName(roomId)): the room's object, made on first use
WithInstance(id) ==
    IF id \in instances THEN accepted
    ELSE [r \in instances \cup {id} |-> IF r = id THEN << >> ELSE accepted[r]]

\* the request is refused by handleWebSocket: no stub is made
RejectRoomId(roomId, upgrade) ==
    /\ roomId \notin ValidRoomIds
    /\ response' = createErrorResponse("Bad Request", 400, "Invalid room id")
    /\ UNCHANGED <<instances, accepted, joined, readyState, closeCode, inbox, handled>>
    /\ UNCHANGED clientVars

\* ChatRoom.fetch refuses a request that is no WebSocket upgrade
RejectUpgrade(roomId, upgrade) ==
    /\ roomId \in ValidRoomIds
    /\ ~IsUpgrade(upgrade)
    /\ instances' = instances \cup {idFromName(roomId)}
    /\ accepted' = WithInstance(idFromName(roomId))
    /\ response' = createErrorResponse("Bad Request", 400, "Expected WebSocket upgrade")
    /\ UNCHANGED <<joined, readyState, closeCode, inbox, handled>>
    /\ UNCHANGED clientVars

\* ChatRoom.fetch accepts the server end of a new WebSocketPair
AcceptUpgrade(roomId, upgrade) ==
    /\ roomId \in ValidRoomIds
    /\ IsUpgrade(upgrade)
    /\ Len(readyState) < MaxSockets
    /\ LET server == Len(readyState) + 1
           id == idFromName(roomId)
       IN  /\ instances' = instances \cup {id}
           /\ accepted' = [WithInstance(id) EXCEPT ![id] = Append(@, server)]
           /\ joined' = Append(joined, id)
           /\ readyState' = Append(readyState, "OPEN")
           /\ closeCode' = Append(closeCode, 0)
           /\ inbox' = Append(inbox, << >>)
    /\ response' = UpgradeResponse
    /\ UNCHANGED handled
    /\ UNCHANGED clientVars

handleWebSocket(roomId, upgrade) ==
    \/ RejectRoomId(roomId, upgrade)
    \/ RejectUpgrade(roomId, upgrade)
    \/ AcceptUpgrade(roomId, upgrade)

(***************************************************************************)
(* ChatRoom.webSocketMessage(ws, message)                                  *)
(***************************************************************************)
webSocketMessage(ws, message) ==
    /\ Len(handled) < MaxMessages
    /\ IsListed(ws)
    /\ readyState[ws] = "OPEN"
    /\ LET text == TextOf(message)
           room == RoomOf(ws)
           n == Len(handled) + 1
           entry == [n |-> n, text |-> text]
           record == [n |-> n, ws |-> ws, room |-> room, message |-> message,
                      text |-> text, sockets |-> getWebSockets(room),
                      live |-> Live(room)]
       IN  /\ handled' = Append(handled, record)
           /\ IF TooLarge(text)
              THEN /\ readyState' = [readyState EXCEPT ![ws] = "CLOSED"]
                   /\ closeCode' = [closeCode EXCEPT ![ws] = 1009]
                   /\ inbox' = inbox
              ELSE /\ inbox' = Forward(getWebSockets(room), ws, entry, inbox)
                   /\ UNCHANGED <<readyState, closeCode>>
    /\ UNCHANGED <<instances, accepted, joined, response>>
    /\ UNCHANGED clientVars

(***************************************************************************)
(* Closes and errors.  The handlers are empty; the runtime drops the       *)
(* socket from getWebSockets() when it reports the close or the error.     *)
(***************************************************************************)
Without(seq, s) == SelectSeq(seq, LAMBDA x : x # s)

\* the peer closes its end: from now on socket.send throws
PeerClose(ws) ==
    /\ IsListed(ws)
    /\ readyState[ws] = "OPEN"
    /\ readyState' = [readyState EXCEPT ![ws] = "CLOSED"]
    /\ closeCode' = [closeCode EXCEPT ![ws] = 1000]
    /\ UNCHANGED <<instances, accepted, joined, inbox, response, handled>>
    /\ UNCHANGED clientVars

webSocketClose(ws) ==
    /\ IsListed(ws)
    /\ readyState[ws] = "CLOSED"
    /\ accepted' = [r \in instances |-> Without(accepted[r], ws)]
    /\ UNCHANGED <<instances, joined, readyState, closeCode, inbox, response, handled>>
    /\ UNCHANGED clientVars

webSocketError(ws) ==
    /\ IsListed(ws)
    /\ readyState[ws] = "OPEN"
    /\ readyState' = [readyState EXCEPT ![ws] = "CLOSED"]
    /\ closeCode' = closeCode
    /\ accepted' = [r \in instances |-> Without(accepted[r], ws)]
    /\ UNCHANGED <<instances, joined, inbox, response, handled>>
    /\ UNCHANGED clientVars

\* a client opens a channel: GET /ws/<fingerprint> with Upgrade: websocket
Connect(roomId) ==
    /\ roomId \in ValidRoomIds
    /\ AcceptUpgrade(roomId, "websocket")

(***************************************************************************)
(* Client: the cipher.  A ciphertext is modelled by the key that sealed it *)
(* and the bytes it seals; AES-GCM opens it under that key only.           *)
(***************************************************************************)
NoKey == "null"

Sealed(key, bytes) == [key |-> key, plain |-> bytes]

\* null, and a value v, of a call that returns bytes or null
Null == << >>
Some(v) == <<v>>

SubtleDecrypt_Unauthenticated(key, data) == Some(data.plain)

\* crypto.subtle.decrypt({ name: 'AES-GCM', iv }, cryptoKey, data): rejects on a tag mismatch
SubtleDecrypt(key, data) ==
    IF data.key = key THEN Some(data.plain) ELSE Null

\* await decryptBytes(payload).catch(() => null)
decryptBytes(payload) ==
    IF cryptoKey = NoKey THEN Null ELSE SubtleDecrypt(cryptoKey, payload.data)

(***************************************************************************)
(* Client: the file_chunk envelopes the receiver is handed.                *)
(***************************************************************************)
Chunk(id, index, total, key, plain, name) ==
    [type |-> "file_chunk", id |-> id, index |-> index, total |-> total,
     data |-> Sealed(key, plain), name |-> name]

\* a transfer of three chunks, all sealed under the receiver's key
TransferA ==
    {Chunk("A", 0, 3, "k1", <<1, 2>>, "a.bin"),
     Chunk("A", 1, 3, "k1", <<3, 4>>, "a.bin"),
     Chunk("A", 2, 3, "k1", <<5>>, "a.bin")}

\* a transfer of two chunks whose chunk 1 never opens under the receiver's key
TransferB ==
    {Chunk("B", 0, 2, "k1", <<6>>, "b.bin"),
     Chunk("B", 1, 2, "k2", <<7>>, "b.bin")}

ChunkPayloads == TransferA \cup TransferB

\* the envelope without one of its fields: in the parsed JSON the field is undefined
Drop(payload, field) == [f \in DOMAIN payload \ {field} |-> payload[f]]

\* envelopes of type file_chunk that name transfer A and break one rule each:
\* total 0, index -1, index = total, no id, no total
MalformedChunks ==
    {Chunk("A", 0, 0, "k1", <<8>>, "a.bin"),
     Chunk("A", -1, 3, "k1", <<8>>, "a.bin"),
     Chunk("A", 3, 3, "k1", <<8>>, "a.bin"),
     Drop(Chunk("A", 0, 3, "k1", <<8>>, "a.bin"), "id"),
     Drop(Chunk("A", 0, 3, "k1", <<8>>, "a.bin"), "total")}

\* well-formed envelopes that name transfer A with a total of 2, not 3
DisagreeingChunks ==
    {Chunk("A", 0, 2, "k1", <<8>>, "a.bin"),
     Chunk("A", 1, 2, "k1", <<9>>, "a.bin")}

(***************************************************************************)
(* Client: assembly records (createChunkState) and handleFileChunk.        *)
(***************************************************************************)
\* an empty slot of new Array(total)
Hole == << >>

\* typeof payload[field] === 'string': every id of the model is a string, and
\* a field the envelope lacks is undefined
HasString(payload, field) == field \in DOMAIN payload

\* Number.isInteger(payload[field]): every total and index of the model is an
\* integer, and a field the envelope lacks is undefined
HasInteger(payload, field) == field \in DOMAIN payload

WellFormed_AnyIndex(payload) ==
    /\ HasString(payload, "id")
    /\ HasInteger(payload, "total") /\ payload.total > 0
    /\ HasInteger(payload, "index")

\* the checks of handleFileChunk before it looks up the record
WellFormed(payload) ==
    /\ HasString(payload, "id")
    /\ HasInteger(payload, "total") /\ payload.total > 0
    /\ HasInteger(payload, "index") /\ payload.index >= 0 /\ payload.index < payload.total

createChunkState(payload) ==
    [id |-> payload.id,
     total |-> payload.total,
     received |-> 0,
     chunks |-> [i \in 0..(payload.total - 1) |-> Hole],
     meta |-> [name |-> payload.name],
     timer |-> "armed"]

TotalDiffers_Never(state, total) == FALSE

\* state.total !== total
TotalDiffers(state, total) == state.total # total

IsFilled_Never(state, index) == FALSE

\* if (state.chunks[index]) return
IsFilled(state, index) == index \in DOMAIN state.chunks /\ state.chunks[index] # Hole

StoreChunk_Push(state, index, bytes) ==
    [state EXCEPT !.chunks[state.received] = Some(bytes), !.received = @ + 1]

\* state.chunks[index] = bytes; state.received += 1
StoreChunk(state, index, bytes) ==
    [state EXCEPT !.chunks[index] = Some(bytes), !.received = @ + 1]

IsComplete_AtLeast(state) == state.received >= state.total

\* !(state.received !== state.total)
IsComplete(state) == state.received = state.total

\* !chunk of a stored chunk: a Uint8Array is an object, and no object is falsy
Falsy(bytes) == FALSE

\* state.chunks.some((chunk) => !chunk): some() calls back for the elements
\* the array holds and skips its empty slots
SomeFalsy(chunks) ==
    \E i \in DOMAIN chunks : chunks[i] # Hole /\ Falsy(chunks[i][1])

\* for (const chunk of state.chunks) visits an empty slot as undefined, and
\* merged.set(undefined, offset) throws a TypeError
MergeThrows(chunks) == \E i \in DOMAIN chunks : chunks[i] = Hole

RECURSIVE MergeFrom(_, _)
\* merged.set(chunk, offset) for the chunks from index i on, in index order
MergeFrom(chunks, i) ==
    IF i \notin DOMAIN chunks THEN << >>
    ELSE chunks[i][1] \o MergeFrom(chunks, i + 1)

Merged(chunks) == MergeFrom(chunks, 0)

\* incomingChunks.delete(id)
MapDelete(map, id) == [k \in DOMAIN map \ {id} |-> map[k]]

\* incomingChunks.set(id, ref)
MapSet(map, id, ref) == [k \in DOMAIN map \cup {id} |-> IF k = id THEN ref ELSE map[k]]

\* addFileMessage(null, payload.time, false, payload, true)
FailedFileMessage(payload) ==
    [id |-> payload.id, failed |-> TRUE, bytes |-> << >>, name |-> payload.name]

\* addFileMessage(url, state.meta.time, false, payloadMeta, false), url of the merged Blob
FileMessage(state) ==
    [id |-> state.id, failed |-> FALSE, bytes |-> Merged(state.chunks), name |-> state.meta.name]

\* handleFileChunk(payload), up to its await of decryptBytes
handleFileChunk_call(payload) ==
    /\ arrivals' = arrivals (+) SetToBag({payload})
    /\ IF ~WellFormed(payload)
       THEN UNCHANGED <<incomingChunks, heap, pending>>
       ELSE LET known == payload.id \in DOMAIN incomingChunks
                ref == IF known THEN incomingChunks[payload.id] ELSE Len(heap) + 1
                heap1 == IF known THEN heap ELSE Append(heap, createChunkState(payload))
                state == heap1[ref]
            IN  /\ heap' = heap1
                /\ incomingChunks' =
                       IF known THEN incomingChunks ELSE MapSet(incomingChunks, payload.id, ref)
                /\ IF TotalDiffers(state, payload.total) \/ IsFilled(state, payload.index)
                   THEN pending' = pending
                   ELSE pending' = pending (+) SetToBag({[payload |-> payload, state |-> ref,
                                                         bytes |-> decryptBytes(payload)]})
    /\ UNCHANGED lapsed

\* a call of handleFileChunk(payload) on its own
handleFileChunk(payload) ==
    /\ handleFileChunk_call(payload)
    /\ UNCHANGED <<cryptoKey, messagesEl, unhandled>>
    /\ UNCHANGED sessionVars
    /\ UNCHANGED relayVars

\* handleFileChunk from the point decryptBytes settles
handleFileChunk_resume(call) ==
    /\ BagIn(call, pending)
    /\ pending' = pending (-) SetToBag({call})
    /\ IF call.bytes = Null
       THEN /\ incomingChunks' = MapDelete(incomingChunks, call.payload.id)
            /\ messagesEl' = Append(messagesEl, FailedFileMessage(call.payload))
            /\ UNCHANGED <<heap, unhandled>>
       ELSE LET stored == StoreChunk(heap[call.state], call.payload.index, call.bytes[1])
            IN  IF ~IsComplete(stored)
                THEN /\ heap' = [heap EXCEPT ![call.state] = stored]
                     /\ UNCHANGED <<incomingChunks, messagesEl, unhandled>>
                ELSE \* clearTimeout(state.timer); incomingChunks.delete(payload.id)
                     /\ heap' = [heap EXCEPT ![call.state] =
                                    [stored EXCEPT !.timer = IF @ = "armed" THEN "cleared" ELSE @]]
                     /\ incomingChunks' = MapDelete(incomingChunks, call.payload.id)
                     /\ IF SomeFalsy(stored.chunks)
                        THEN UNCHANGED <<messagesEl, unhandled>>
                        ELSE IF MergeThrows(stored.chunks)
                             THEN /\ unhandled' = unhandled \cup {call.payload.id}
                                  /\ UNCHANGED messagesEl
                             ELSE /\ messagesEl' = Append(messagesEl, FileMessage(stored))
                                  /\ UNCHANGED unhandled
    /\ UNCHANGED <<cryptoKey, arrivals, lapsed>>
    /\ UNCHANGED sessionVars
    /\ UNCHANGED relayVars

\* the indices of transfer id of which no chunk was handed to handleFileChunk
NotArrived(id, total) ==
    {i \in 0..(total - 1) :
        \A p \in BagToSet(arrivals) : ~(WellFormed(p) /\ p.id = id /\ p.index = i)}

OnChunkTimeout_Keep(map, id) == map

\* () => { incomingChunks.delete(payload.id); }
OnChunkTimeout(map, id) == MapDelete(map, id)

\* state.timer goes off CHUNK_TTL after createChunkState armed it.  Timers
\* share one delay, so they fire in the order they were armed.
chunkTimeout(ref) ==
    /\ heap[ref].timer = "armed"
    /\ \A earlier \in 1..(ref - 1) : heap[earlier].timer # "armed"
    /\ heap' = [heap EXCEPT ![ref].timer = "fired"]
    /\ incomingChunks' = OnChunkTimeout(incomingChunks, heap[ref].id)
    /\ lapsed' = lapsed \cup {<<heap[ref].id, i>> : i \in NotArrived(heap[ref].id, heap[ref].total)}
    /\ UNCHANGED <<cryptoKey, pending, messagesEl, unhandled, arrivals>>
    /\ UNCHANGED sessionVars
    /\ UNCHANGED relayVars

(***************************************************************************)
(* Client: passphrases, keys and room fingerprints.  A passphrase is a     *)
(* sequence of characters.                                                 *)
(***************************************************************************)
\* const DEFAULT_PASSWORD = 'noset'
DEFAULT_PASSWORD == <<"n", "o", "s", "e", "t">>

\* what the passphrase field may hold: "a", "b " and a blank
FieldValues == {<<"a">>, <<"b", " ">>, <<" ">>}

RECURSIVE TrimStart(_)
TrimStart(value) ==
    IF value # << >> /\ Head(value) = " " THEN TrimStart(Tail(value)) ELSE value

RECURSIVE TrimEnd(_)
TrimEnd(value) ==
    IF value # << >> /\ value[Len(value)] = " "
    THEN TrimEnd(SubSeq(value, 1, Len(value) - 1))
    ELSE value

\* (value || '').trim()
Trim(value) == TrimEnd(TrimStart(value))

\* const trimmed = (value || '').trim(); return trimmed ? trimmed : DEFAULT_PASSWORD
normalizePassword(value) ==
    IF Trim(value) = << >> THEN DEFAULT_PASSWORD ELSE Trim(value)

Passwords == {normalizePassword(value) : value \in FieldValues}

\* deriveKey(password): the AES-GCM key imported from SHA-256(password); one
\* key per passphrase
deriveKey(password) ==
    CASE password = <<"a">> -> "k1"
      [] password = <<"b">> -> "k2"
      [] OTHER -> "k0"

\* hashRoomId(password): bytesToHex(SHA-256(password)), 64 lower-case hex
\* digits; one fingerprint per passphrase
hashRoomId(password) ==
    CASE password = <<"a">> -> LowerId
      [] password = <<"b">> -> Rep("b", RoomIdLength)
      [] OTHER -> Rep("0", RoomIdLength)

\* the passphrase a key was derived from
PasswordOfKey(key) == CHOOSE password \in Passwords : deriveKey(password) = key

(***************************************************************************)
(* Client: the bytes of files.  A Uint8Array is a sequence of segments,    *)
(* Seg(f, lo, hi) being the bytes lo .. hi-1 of file f.                    *)
(***************************************************************************)
Seg(f, lo, hi) == [file |-> f, lo |-> lo, hi |-> hi]

RECURSIVE ByteLength(_)
\* bytes.length
ByteLength(bytes) ==
    IF bytes = << >> THEN 0
    ELSE (Head(bytes).hi - Head(bytes).lo) + ByteLength(Tail(bytes))

Min(a, b) == IF a <= b THEN a ELSE b

RECURSIVE Slice(_, _, _)
\* bytes.slice(start, end), 0 <= start
Slice(bytes, start, end) ==
    IF bytes = << >> \/ end <= start THEN << >>
    ELSE LET h == Head(bytes)
             n == h.hi - h.lo
         IN  IF start >= n THEN Slice(Tail(bytes), start - n, end - n)
             ELSE <<Seg(h.file, h.lo + start, h.lo + Min(end, n))>>
                      \o Slice(Tail(bytes), 0, end - n)

RECURSIVE Canon(_)
\* the same bytes with neighbouring segments joined: two Uint8Arrays hold
\* the same bytes exactly when their Canon is equal
Canon(bytes) ==
    IF bytes = << >> THEN << >>
    ELSE LET h == Head(bytes)
             rest == Canon(Tail(bytes))
         IN  IF h.lo >= h.hi THEN rest
             ELSE IF rest # << >> /\ Head(rest).file = h.file /\ Head(rest).lo = h.hi
                  THEN <<Seg(h.file, h.lo, Head(rest).hi)>> \o Tail(rest)
                  ELSE <<h>> \o rest

\* a File: its name, its type and its content
File(name, size) ==
    [name |-> name, type |-> "application/octet-stream", size |-> size,
     bytes |-> <<Seg(name, 0, size)>>]

\* one byte more than a chunk holds; two full chunks; 1,000,000 bytes
ChunkedFiles ==
    {File("f2", MAX_CHUNK_BYTES + 1),
     File("g2", 2 * MAX_CHUNK_BYTES),
     File("f5", 1000000)}

\* a file of exactly one chunk's size, sent as one envelope of type file
SingleFiles == {File("f1", MAX_CHUNK_BYTES)}

Files == ChunkedFiles \cup SingleFiles

\* crypto.randomUUID(): the n-th identifier drawn
randomUUID(n) == <<"uuid", n>>

\* sessionStorage's cfchat.clientId of this client, and that of a peer
clientId == "me"
peerId == "peer"

(***************************************************************************)
(* Client: localStorage and the history of a room.                         *)
(***************************************************************************)
\* const STORAGE_PASSWORD = 'cfchat.password'
STORAGE_PASSWORD == <<"cfchat.password">>

\* storageKey(roomId): STORAGE_MESSAGES_PREFIX + roomId
storageKey(roomId) == <<"cfchat.messages.">> \o roomId

\* localStorage.setItem(key, value)
setItem(storage, key, value) ==
    [k \in DOMAIN storage \cup {key} |-> IF k = key THEN value ELSE storage[k]]

\* JSON.parse(localStorage.getItem(storageKey(roomId))) || [], [] when there is none
StoredHistory(roomId) ==
    IF storageKey(roomId) \in DOMAIN localStorage
    THEN localStorage[storageKey(roomId)]
    ELSE << >>

\* loadHistory(): the view and messageStore are emptied, the saved history of
\* the room is read back and renderHistory starts on it
loadHistory(roomId) ==
    /\ messagesEl' = << >>
    /\ messageStore' = StoredHistory(roomId)
    /\ renderRuns' =
           IF StoredHistory(roomId) = << >> THEN renderRuns
           ELSE renderRuns (+) SetToBag({StoredHistory(roomId)})

(***************************************************************************)
(* Client: connect() and the listeners of a socket.                        *)
(***************************************************************************)
\* ws.close(1000, 'switch'): a socket that is connecting or open starts closing
CloseCalled(sockets, socket) ==
    IF socket = 0 THEN sockets
    ELSE [sockets EXCEPT ![socket].readyState =
             IF @ \in {"CONNECTING", "OPEN"} THEN "CLOSING" ELSE @]

connect_Once(roomId) ==
    IF roomId = << >> \/ clientWs # 0
    THEN UNCHANGED <<clientWs, webSockets, statusEl>>
    ELSE /\ webSockets' = Append(webSockets, [url |-> roomId, readyState |-> "CONNECTING"])
         /\ clientWs' = Len(webSockets) + 1
         /\ statusEl' = "connecting"

\* connect(), reached with currentRoomId = roomId
connect(roomId) ==
    IF roomId = << >>
    THEN UNCHANGED <<clientWs, webSockets, statusEl>>
    ELSE /\ webSockets' = Append(CloseCalled(webSockets, clientWs),
                                 [url |-> roomId, readyState |-> "CONNECTING"])
         /\ clientWs' = Len(webSockets) + 1
         /\ statusEl' = "connecting"

IsCurrent_Any(socket) == TRUE

\* if (ws !== socket) return, first line of every listener
IsCurrent(socket) == clientWs = socket

\* let reconnectTimer = null
NoTimer == [state |-> "null", delay |-> 0]

scheduleReconnect_Once ==
    IF reconnectTimer.state = "null"
    THEN [state |-> "armed", delay |-> RECONNECT_DELAY]
    ELSE reconnectTimer

\* scheduleReconnect(): clearTimeout(reconnectTimer), then a new timer
scheduleReconnect == [state |-> "armed", delay |-> RECONNECT_DELAY]

assemblyVars == <<incomingChunks, heap, pending, arrivals, lapsed>>

\* the socket opens, and its open listener runs
onOpen(socket) ==
    /\ webSockets[socket].readyState = "CONNECTING"
    /\ webSockets' = [webSockets EXCEPT ![socket].readyState = "OPEN"]
    /\ statusEl' = IF IsCurrent(socket) THEN "connected" ELSE statusEl
    /\ UNCHANGED <<passwordVersion, currentPassword, currentRoomId, clientWs, reconnectTimer,
                   applyRuns, sendRuns, sent, messageStore, localStorage, renderRuns,
                   incoming, received>>
    /\ UNCHANGED <<cryptoKey, messagesEl, unhandled>>
    /\ UNCHANGED assemblyVars
    /\ UNCHANGED relayVars
    /\ UNCHANGED fieldVars

\* the close listener
closeListener(socket) ==
    IF IsCurrent(socket) /\ currentRoomId # << >>
    THEN /\ statusEl' = "disconnected"
         /\ reconnectTimer' = scheduleReconnect
    ELSE UNCHANGED <<statusEl, reconnectTimer>>

\* the socket closes (the closing handshake ends, or the peer or the network
\* ends the connection), and its close listener runs
onClose(socket) ==
    /\ webSockets[socket].readyState # "CLOSED"
    /\ webSockets' = [webSockets EXCEPT ![socket].readyState = "CLOSED"]
    /\ closeListener(socket)
    /\ UNCHANGED <<passwordVersion, currentPassword, currentRoomId, clientWs,
                   applyRuns, sendRuns, sent, messageStore, localStorage, renderRuns,
                   incoming, received>>
    /\ UNCHANGED <<cryptoKey, messagesEl, unhandled>>
    /\ UNCHANGED assemblyVars
    /\ UNCHANGED relayVars
    /\ UNCHANGED fieldVars

\* the connection fails: the error listener runs (it only sets the status),
\* then the close listener
onError(socket) ==
    /\ webSockets[socket].readyState \in {"CONNECTING", "OPEN"}
    /\ webSockets' = [webSockets EXCEPT ![socket].readyState = "CLOSED"]
    /\ IF IsCurrent(socket) /\ currentRoomId = << >>
       THEN statusEl' = "disconnected" /\ UNCHANGED reconnectTimer
       ELSE closeListener(socket)
    /\ UNCHANGED <<passwordVersion, currentPassword, currentRoomId, clientWs,
                   applyRuns, sendRuns, sent, messageStore, localStorage, renderRuns,
                   incoming, received>>
    /\ UNCHANGED <<cryptoKey, messagesEl, unhandled>>
    /\ UNCHANGED assemblyVars
    /\ UNCHANGED relayVars
    /\ UNCHANGED fieldVars

\* the timer of scheduleReconnect goes off: connect()
reconnectTimeout ==
    /\ reconnectTimer.state = "armed"
    /\ Len(webSockets) < MaxClientSockets
    /\ reconnectTimer' = [reconnectTimer EXCEPT !.state = "fired"]
    /\ connect(currentRoomId)
    /\ UNCHANGED <<passwordVersion, currentPassword, currentRoomId,
                   applyRuns, sendRuns, sent, messageStore, localStorage, renderRuns,
                   incoming, received>>
    /\ UNCHANGED <<cryptoKey, messagesEl, unhandled>>
    /\ UNCHANGED assemblyVars
    /\ UNCHANGED relayVars
    /\ UNCHANGED fieldVars

(***************************************************************************)
(* Client: applyPassword.                                                  *)
(***************************************************************************)
\* if (password === currentPassword && cryptoKey && currentRoomId) return
ReturnsAtOnce(rawPassword) ==
    /\ normalizePassword(rawPassword) = currentPassword
    /\ cryptoKey # NoKey
    /\ currentRoomId # << >>

\* applyPassword(rawPassword) up to its await of deriveKey, when it does not
\* return at once
applyPassword_call(rawPassword) ==
    LET password == normalizePassword(rawPassword)
    IN  /\ ~ReturnsAtOnce(rawPassword)
        /\ passwordVersion < MaxApply
        /\ passwordVersion' = passwordVersion + 1
        /\ currentPassword' = password
        /\ localStorage' = setItem(localStorage, STORAGE_PASSWORD, password)
        /\ applyRuns' = applyRuns \cup {[version |-> passwordVersion + 1,
                                         password |-> password, at |-> "deriveKey"]}
        /\ UNCHANGED <<currentRoomId, clientWs, webSockets, statusEl, reconnectTimer,
                       sendRuns, sent, messageStore, renderRuns, incoming, received>>
        /\ UNCHANGED <<cryptoKey, messagesEl, unhandled>>
        /\ UNCHANGED assemblyVars
        /\ UNCHANGED relayVars

\* applyPassword(rawPassword) called with the field as it stands
applyPassword(rawPassword) == applyPassword_call(rawPassword) /\ UNCHANGED fieldVars

\* the input listener of the field: the debounce timer is cleared and set
\* anew, with the value the field has now
onInput(value) ==
    /\ passwordVersion > 0
    /\ secretInput' = value
    /\ passwordTimer' = [state |-> "armed", value |-> value]
    /\ UNCHANGED <<passwordVersion, currentPassword, currentRoomId, clientWs, webSockets,
                   statusEl, reconnectTimer, applyRuns, sendRuns, sent, messageStore,
                   localStorage, renderRuns, incoming, received>>
    /\ UNCHANGED <<cryptoKey, messagesEl, unhandled>>
    /\ UNCHANGED assemblyVars
    /\ UNCHANGED relayVars

\* passwordTimer goes off, 500 ms after the last input: applyPassword(value)
passwordTimeout ==
    /\ passwordTimer.state = "armed"
    /\ passwordTimer' = [passwordTimer EXCEPT !.state = "fired"]
    /\ UNCHANGED secretInput
    /\ IF ReturnsAtOnce(passwordTimer.value)
       THEN /\ UNCHANGED <<passwordVersion, currentPassword, currentRoomId, clientWs,
                           webSockets, statusEl, reconnectTimer, applyRuns, sendRuns, sent,
                           messageStore, localStorage, renderRuns, incoming, received>>
            /\ UNCHANGED <<cryptoKey, messagesEl, unhandled>>
            /\ UNCHANGED assemblyVars
            /\ UNCHANGED relayVars
       ELSE applyPassword_call(passwordTimer.value)

\* the blur listener of the field: applyPassword(secretInput.value)
onBlur == passwordVersion > 0 /\ applyPassword(secretInput)

IsStale_Never(run) == FALSE

\* version !== passwordVersion, after each await of applyPassword
IsStale(run) == run.version # passwordVersion

\* from the point deriveKey settles to the await of hashRoomId
applyPassword_derived(run) ==
    /\ run \in applyRuns
    /\ run.at = "deriveKey"
    /\ IF IsStale(run)
       THEN /\ applyRuns' = applyRuns \ {run}
            /\ UNCHANGED cryptoKey
       ELSE /\ applyRuns' = (applyRuns \ {run}) \cup {[run EXCEPT !.at = "hashRoomId"]}
            /\ cryptoKey' = deriveKey(run.password)
    /\ UNCHANGED <<passwordVersion, currentPassword, currentRoomId, clientWs, webSockets,
                   statusEl, reconnectTimer, sendRuns, sent, messageStore, localStorage,
                   renderRuns, incoming, received>>
    /\ UNCHANGED <<messagesEl, unhandled>>
    /\ UNCHANGED assemblyVars
    /\ UNCHANGED relayVars
    /\ UNCHANGED fieldVars

\* from the point hashRoomId settles: currentRoomId, loadHistory(), connect()
applyPassword_hashed(run) ==
    /\ run \in applyRuns
    /\ run.at = "hashRoomId"
    /\ applyRuns' = applyRuns \ {run}
    /\ IF IsStale(run)
       THEN UNCHANGED <<currentRoomId, clientWs, webSockets, statusEl, messageStore,
                        renderRuns, messagesEl>>
       ELSE /\ Len(webSockets) < MaxClientSockets
            /\ currentRoomId' = hashRoomId(run.password)
            /\ loadHistory(hashRoomId(run.password))
            /\ connect(hashRoomId(run.password))
    /\ UNCHANGED <<passwordVersion, currentPassword, reconnectTimer, sendRuns, sent,
                   localStorage, incoming, received>>
    /\ UNCHANGED <<cryptoKey, unhandled>>
    /\ UNCHANGED assemblyVars
    /\ UNCHANGED relayVars
    /\ UNCHANGED fieldVars

(***************************************************************************)
(* Client: handleIncoming.  What a socket hands to the message listener    *)
(* is a JSON text: Json(payload), or a text JSON.parse throws on.          *)
(***************************************************************************)
Json(payload) == [valid |-> TRUE, value |-> payload]
NotJson == [valid |-> FALSE]

\* a text envelope of a peer, the text "hi" sealed under key
TextEnvelope(key) ==
    [type |-> "text", sender |-> peerId, iv |-> "iv",
     data |-> Sealed(key, <<Run("h", 1), Run("i", 1)>>)]

\* a whole file of a peer in one envelope
FileEnvelope(key) ==
    [type |-> "file", sender |-> peerId, iv |-> "iv",
     data |-> Sealed(key, <<Seg("p1", 0, 10)>>), name |-> "p1"]

\* a file_chunk envelope of a peer: chunk 0 of 2 of transfer "C"
ChunkEnvelope ==
    [type |-> "file_chunk", sender |-> peerId, iv |-> "iv", id |-> "C", index |-> 0,
     total |-> 2, data |-> Sealed("k1", <<Seg("p2", 0, 10)>>), name |-> "p2"]

\* envelopes handleIncoming handles: a text, a text sealed under another
\* key, a text without type, a text of type TEXT, a file, a chunk
ProperEnvelopes ==
    {Json(TextEnvelope("k1")), Json(TextEnvelope("k2")),
     Json(Drop(TextEnvelope("k1"), "type")),
     Json([TextEnvelope("k1") EXCEPT !.type = "TEXT"]),
     Json(FileEnvelope("k1")), Json(ChunkEnvelope)}

\* not JSON; no iv; no data; a chunk without data
BrokenEnvelopes ==
    {NotJson,
     Json(Drop(TextEnvelope("k1"), "iv")),
     Json(Drop(TextEnvelope("k1"), "data")),
     Json(Drop(ChunkEnvelope, "data"))}

\* envelopes whose type is a string handleIncoming does not know
UnknownTypeEnvelopes ==
    {Json([TextEnvelope("k1") EXCEPT !.type = "sticker"])}

\* the client's own envelope, as the relay would never send it back
OwnEnvelopes == {Json([TextEnvelope("k1") EXCEPT !.sender = clientId])}

\* payload[field] is missing or falsy
Lacks(payload, field) == field \notin DOMAIN payload

\* type.toLowerCase(), on the types of the model
toLowerCase(type) == CASE type = "TEXT" -> "text" [] OTHER -> type

\* typeof payload.type === 'string' ? payload.type.toLowerCase() : ''
payloadType(payload) == IF Lacks(payload, "type") THEN "" ELSE toLowerCase(payload.type)

\* what addTextMessage(text, time, mine, failed) appends to the view
TextMessage(text, mine, failed) == [text |-> text, mine |-> mine, failed |-> failed]

\* addTextMessage('未知消息类型', payload.time, false, true)
UnknownTypeMessage == TextMessage(Some("unknown message type"), FALSE, TRUE)

\* what addFileMessage(url, time, mine, meta, failed) appends for a whole file
WholeFileMessage(bytes, name, mine, failed) ==
    [failed |-> failed, bytes |-> bytes, name |-> name, mine |-> mine]

IsTextType_Any(type) == TRUE

\* !(payloadType && payloadType !== 'text'), after the file and chunk types
\* were handled
IsTextType(type) == type = "" \/ type = "text"

\* handleIncoming(raw) up to its first await, or to its end when it has none
handleIncoming(raw) ==
    IF ~raw.valid
    THEN UNCHANGED <<messagesEl, incoming, assemblyVars>>
    ELSE LET payload == raw.value
         IN  IF \/ (~Lacks(payload, "sender") /\ payload.sender = clientId)
                \/ Lacks(payload, "data")
                \/ Lacks(payload, "iv")
             THEN UNCHANGED <<messagesEl, incoming, assemblyVars>>
             ELSE IF payloadType(payload) \in {"image_chunk", "file_chunk"}
             THEN /\ handleFileChunk_call(payload)
                  /\ UNCHANGED <<messagesEl, incoming>>
             ELSE IF payloadType(payload) \in {"file", "image"}
             THEN /\ incoming' = incoming (+) SetToBag({[payload |-> payload, kind |-> "file",
                                                        bytes |-> decryptBytes(payload),
                                                        room |-> currentRoomId]})
                  /\ UNCHANGED <<messagesEl, assemblyVars>>
             ELSE IF ~IsTextType(payloadType(payload))
             THEN /\ messagesEl' = Append(messagesEl, UnknownTypeMessage)
                  /\ UNCHANGED <<incoming, assemblyVars>>
             ELSE /\ incoming' = incoming (+) SetToBag({[payload |-> payload, kind |-> "text",
                                                        bytes |-> decryptBytes(payload),
                                                        room |-> currentRoomId]})
                  /\ UNCHANGED <<messagesEl, assemblyVars>>

\* the socket delivers a message, and its message listener runs
onMessage(socket, raw) ==
    /\ webSockets[socket].readyState \in {"OPEN", "CLOSING"}
    /\ received < MaxIncoming
    /\ received' = received + 1
    /\ IF IsCurrent(socket)
       THEN handleIncoming(raw)
       ELSE UNCHANGED <<messagesEl, incoming, assemblyVars>>
    /\ UNCHANGED <<passwordVersion, currentPassword, currentRoomId, clientWs, webSockets,
                   statusEl, reconnectTimer, applyRuns, sendRuns, sent, messageStore,
                   localStorage, renderRuns>>
    /\ UNCHANGED <<cryptoKey, unhandled>>
    /\ UNCHANGED relayVars
    /\ UNCHANGED fieldVars

\* messageStore.filter(item => (item.type || 'text') === 'text').slice(-MAX_HISTORY)
Trimmed(store) ==
    LET texts == SelectSeq(store, LAMBDA item : item.type = "text")
    IN  SubSeq(texts, IF Len(texts) > MAX_HISTORY THEN Len(texts) - MAX_HISTORY + 1 ELSE 1,
               Len(texts))

\* saveHistory(), with messageStore = store
saveHistory(store) ==
    IF currentRoomId = << >> THEN localStorage
    ELSE setItem(localStorage, storageKey(currentRoomId), Trimmed(store))

\* { ...payload, type: 'text', mine: false }
Stored(payload, mine) ==
    [f \in DOMAIN payload \cup {"type", "mine"} |->
        IF f = "type" THEN "text" ELSE IF f = "mine" THEN mine ELSE payload[f]]

\* decryptText: new TextDecoder().decode(bytes), null when there are no bytes
decryptText(bytes) == IF bytes = Null THEN Null ELSE Some(TextDecoder_decode(bytes[1]))

\* !text
IsEmptyText(text) == text = Null \/ Length(text[1]) = 0

\* handleIncoming from the point its decryptBytes or decryptText settles
handleIncoming_resume(call) ==
    /\ BagIn(call, incoming)
    /\ incoming' = incoming (-) SetToBag({call})
    /\ IF call.kind = "file"
       THEN /\ messagesEl' = Append(messagesEl,
                   IF call.bytes = Null
                   THEN WholeFileMessage(<< >>, call.payload.name, FALSE, TRUE)
                   ELSE WholeFileMessage(call.bytes[1], call.payload.name, FALSE, FALSE))
            /\ UNCHANGED <<messageStore, localStorage>>
       ELSE LET text == decryptText(call.bytes)
                store == Append(messageStore, Stored(call.payload, FALSE))
            IN  /\ messagesEl' = Append(messagesEl, TextMessage(text, FALSE, IsEmptyText(text)))
                /\ messageStore' = store
                /\ localStorage' = saveHistory(store)
    /\ UNCHANGED <<passwordVersion, currentPassword, currentRoomId, clientWs, webSockets,
                   statusEl, reconnectTimer, applyRuns, sendRuns, sent, renderRuns, received>>
    /\ UNCHANGED <<cryptoKey, unhandled>>
    /\ UNCHANGED assemblyVars
    /\ UNCHANGED relayVars
    /\ UNCHANGED fieldVars

(***************************************************************************)
(* Client: sendFile and sendFileInChunks.                                  *)
(***************************************************************************)
CeilDiv_Floor(a, b) == a \div b

\* Math.ceil(a / b)
CeilDiv(a, b) == (a + b - 1) \div b

\* payloadMeta of sendFile
MetaOf(file) == [name |-> file.name, mime |-> file.type, size |-> ByteLength(file.bytes)]

\* const total = Math.ceil(bytes.length / MAX_CHUNK_BYTES)
TotalChunks(bytes) == CeilDiv(ByteLength(bytes), MAX_CHUNK_BYTES)

ChunkSlice_Whole(bytes, index) == bytes

\* bytes.slice(start, end) with start = index * MAX_CHUNK_BYTES and
\* end = Math.min(start + MAX_CHUNK_BYTES, bytes.length)
ChunkSlice(bytes, index) ==
    Slice(bytes, index * MAX_CHUNK_BYTES,
          Min(index * MAX_CHUNK_BYTES + MAX_CHUNK_BYTES, ByteLength(bytes)))

\* the envelope of type file_chunk that sendFileInChunks builds
ChunkPayload(run) ==
    [type |-> "file_chunk", sender |-> clientId, id |-> run.id, index |-> run.index,
     total |-> run.total, iv |-> "iv",
     data |-> Sealed(run.key, ChunkSlice(run.file.bytes, run.index)),
     name |-> MetaOf(run.file).name, mime |-> MetaOf(run.file).mime,
     size |-> MetaOf(run.file).size]

\* the envelope of type file that sendFile builds
FilePayload(run) ==
    [type |-> "file", sender |-> clientId, iv |-> "iv",
     data |-> Sealed(run.key, run.file.bytes),
     name |-> MetaOf(run.file).name, mime |-> MetaOf(run.file).mime,
     size |-> MetaOf(run.file).size]

\* the AES-GCM tag crypto.subtle.encrypt appends, and the iv, in bytes
GCM_TAG_BYTES == 16
IV_BYTES == 12

\* btoa(binary).length for n bytes
Base64Length(n) == 4 * ((n + 2) \div 3)

\* crypto.randomUUID().length
UUID_LENGTH == 36

\* String(Date.now()).length
TIME_DIGITS == 13

RECURSIVE Digits(_)
\* String(n).length, n >= 0
Digits(n) == IF n < 10 THEN 1 ELSE 1 + Digits(n \div 10)

\* JSON.stringify of a string of n units: the quotes, and at most six units
\* (\uXXXX) for each unit
QuotedMax(n) == 2 + 6 * n

\* "key":value
Member(keyLength, valueLength) == keyLength + 3 + valueLength

RECURSIVE Sum(_)
Sum(lengths) == IF lengths = << >> THEN 0 ELSE Head(lengths) + Sum(Tail(lengths))

\* the braces, the members and the commas between them
ObjectLength(members) == 2 + Sum(members) + (Len(members) - 1)

\* JSON.stringify(payload).length of an envelope of sendFile or
\* sendFileInChunks at its longest: v, type, sender, time, id, index, total,
\* iv, data, name, mime, size
JsonLength(payload) ==
    ObjectLength(
        <<Member(1, 1),
          Member(4, IF payload.type = "file_chunk" THEN 12 ELSE 6),
          Member(6, 2 + UUID_LENGTH),
          Member(4, TIME_DIGITS),
          Member(2, 2 + Base64Length(IV_BYTES)),
          Member(4, 2 + Base64Length(ByteLength(payload.data.plain) + GCM_TAG_BYTES)),
          Member(4, QuotedMax(MaxNameLength)),
          Member(4, QuotedMax(MaxNameLength)),
          Member(4, Digits(payload.size))>>
        \o (IF payload.type = "file_chunk"
            THEN <<Member(2, 2 + UUID_LENGTH),
                   Member(5, Digits(payload.index)),
                   Member(5, Digits(payload.total))>>
            ELSE << >>))

\* the text frame ws.send(JSON.stringify(payload)) hands to the relay
FrameOf(payload) == [binary |-> FALSE, data |-> <<Run("json", JsonLength(payload))>>]

\* ws.send(text) throws: ws is null, or the socket is still connecting
WsSendThrows == clientWs = 0 \/ webSockets[clientWs].readyState = "CONNECTING"

\* ws.send(text): an open socket transmits, a closing or closed one discards
WsSend(payload) ==
    IF webSockets[clientWs].readyState = "OPEN"
    THEN Append(sent, [socket |-> clientWs, payload |-> payload])
    ELSE sent

\* sendFile(file) up to its await of file.arrayBuffer()
sendFile(file) ==
    /\ Len(sendRuns) < MaxFiles
    /\ file.size <= MAX_FILE_BYTES
    /\ cryptoKey # NoKey /\ currentRoomId # << >>
    /\ clientWs # 0 /\ webSockets[clientWs].readyState = "OPEN"
    /\ sendRuns' = Append(sendRuns, [file |-> file, at |-> "arrayBuffer", id |-> Null,
                                    total |-> 0, index |-> 0, key |-> NoKey,
                                    room |-> currentRoomId, settled |-> applyRuns = {}])
    /\ UNCHANGED <<passwordVersion, currentPassword, currentRoomId, clientWs, webSockets,
                   statusEl, reconnectTimer, applyRuns, sent, messageStore, localStorage,
                   renderRuns, incoming, received>>
    /\ UNCHANGED <<cryptoKey, messagesEl, unhandled>>
    /\ UNCHANGED assemblyVars
    /\ UNCHANGED relayVars
    /\ UNCHANGED fieldVars

\* from the point arrayBuffer settles to the first await of encryptBytes: of
\* the whole file, or inside sendFileInChunks of its chunk 0
sendFile_read(n) ==
    /\ n \in DOMAIN sendRuns
    /\ sendRuns[n].at = "arrayBuffer"
    /\ LET run == sendRuns[n]
       IN  sendRuns' = [sendRuns EXCEPT ![n] =
               IF ByteLength(run.file.bytes) <= MAX_CHUNK_BYTES
               THEN [run EXCEPT !.at = "encryptBytes: file", !.key = cryptoKey]
               ELSE [run EXCEPT !.at = "encryptBytes: chunk", !.id = randomUUID(n),
                                !.total = TotalChunks(run.file.bytes), !.index = 0,
                                !.key = cryptoKey]]
    /\ UNCHANGED <<passwordVersion, currentPassword, currentRoomId, clientWs, webSockets,
                   statusEl, reconnectTimer, applyRuns, sent, messageStore, localStorage,
                   renderRuns, incoming, received>>
    /\ UNCHANGED <<cryptoKey, messagesEl, unhandled>>
    /\ UNCHANGED assemblyVars
    /\ UNCHANGED relayVars
    /\ UNCHANGED fieldVars

\* addFileMessage(url, time, true, payloadMeta, false), the last step of sendFile
OwnFileMessage(file) == WholeFileMessage(file.bytes, MetaOf(file).name, TRUE, FALSE)

\* from the point encryptBytes settles: ws.send, then the next chunk's
\* encryptBytes or the end of sendFile
sendFile_send(n) ==
    /\ n \in DOMAIN sendRuns
    /\ sendRuns[n].at \in {"encryptBytes: file", "encryptBytes: chunk"}
    /\ LET run == sendRuns[n]
           chunked == run.at = "encryptBytes: chunk"
       IN  IF WsSendThrows
           THEN /\ sendRuns' = [sendRuns EXCEPT ![n].at = "thrown"]
                /\ UNCHANGED <<sent, messagesEl>>
           ELSE /\ sent' = WsSend(IF chunked THEN ChunkPayload(run) ELSE FilePayload(run))
                /\ IF chunked /\ run.index + 1 < run.total
                   THEN /\ sendRuns' = [sendRuns EXCEPT ![n].index = @ + 1,
                                                        ![n].key = cryptoKey]
                        /\ UNCHANGED messagesEl
                   ELSE /\ sendRuns' = [sendRuns EXCEPT ![n].at = "done"]
                        /\ messagesEl' = Append(messagesEl, OwnFileMessage(run.file))
    /\ UNCHANGED <<passwordVersion, currentPassword, currentRoomId, clientWs, webSockets,
                   statusEl, reconnectTimer, applyRuns, messageStore, localStorage,
                   renderRuns, incoming, received>>
    /\ UNCHANGED <<cryptoKey, unhandled>>
    /\ UNCHANGED assemblyVars
    /\ UNCHANGED relayVars
    /\ UNCHANGED fieldVars

\* a peer in the same room under the same passphrase is handed, by the relay,
\* an envelope this client sent: its handleFileChunk runs on it
peerReceives(k) ==
    /\ k \in DOMAIN sent
    /\ sent[k].payload.type = "file_chunk"
    /\ CopiesIn(sent[k].payload, arrivals) = 0
    /\ handleFileChunk(sent[k].payload)

(***************************************************************************)
(* Init: an idle relay, and a client whose session under the passphrase    *)
(* "a" stands (key derived, room entered, socket open) and that has sent   *)
(* and received nothing.  InitLoad: the same relay, and the client as the  *)
(* page's script leaves its variables, before the first applyPassword.     *)
(***************************************************************************)
\* let passwordTimer = null
NoPasswordTimer == [state |-> "null", value |-> << >>]

\* localStorage.getItem(STORAGE_PASSWORD) || DEFAULT_PASSWORD
initialPassword ==
    IF STORAGE_PASSWORD \in DOMAIN localStorage
    THEN localStorage[STORAGE_PASSWORD]
    ELSE DEFAULT_PASSWORD

InitRelay ==
    /\ instances = {}
    /\ accepted = << >>
    /\ joined = << >>
    /\ readyState = << >>
    /\ closeCode = << >>
    /\ inbox = << >>
    /\ response = NoResponse
    /\ handled = << >>

InitLoad ==
    /\ InitRelay
    /\ cryptoKey = NoKey
    /\ incomingChunks = << >>
    /\ heap = << >>
    /\ pending = EmptyBag
    /\ messagesEl = << >>
    /\ unhandled = {}
    /\ arrivals = EmptyBag
    /\ lapsed = {}
    /\ passwordVersion = 0
    /\ currentPassword = << >>
    /\ currentRoomId = << >>
    /\ clientWs = 0
    /\ webSockets = << >>
    /\ statusEl = "disconnected"
    /\ reconnectTimer = NoTimer
    /\ applyRuns = {}
    /\ sendRuns = << >>
    /\ sent = << >>
    /\ messageStore = << >>
    /\ localStorage \in {<< >>, setItem(<< >>, STORAGE_PASSWORD, <<"a">>)}
    /\ renderRuns = EmptyBag
    /\ incoming = EmptyBag
    /\ received = 0
    /\ secretInput = IF initialPassword = DEFAULT_PASSWORD THEN << >> ELSE initialPassword
    /\ passwordTimer = NoPasswordTimer

Init ==
    /\ instances = {}
    /\ accepted = << >>
    /\ joined = << >>
    /\ readyState = << >>
    /\ closeCode = << >>
    /\ inbox = << >>
    /\ response = NoResponse
    /\ handled = << >>
    /\ cryptoKey = "k1"
    /\ incomingChunks = << >>
    /\ heap = << >>
    /\ pending = EmptyBag
    /\ messagesEl = << >>
    /\ unhandled = {}
    /\ arrivals = EmptyBag
    /\ lapsed = {}
    /\ passwordVersion = 1
    /\ currentPassword = <<"a">>
    /\ currentRoomId = hashRoomId(<<"a">>)
    /\ clientWs = 1
    /\ webSockets = <<[url |-> hashRoomId(<<"a">>), readyState |-> "OPEN"]>>
    /\ statusEl = "connected"
    /\ reconnectTimer = NoTimer
    /\ applyRuns = {}
    /\ sendRuns = << >>
    /\ sent = << >>
    /\ messageStore = << >>
    /\ localStorage = setItem(<< >>, STORAGE_PASSWORD, <<"a">>)
    /\ renderRuns = EmptyBag
    /\ incoming = EmptyBag
    /\ received = 0
    /\ secretInput = IF initialPassword = DEFAULT_PASSWORD THEN << >> ELSE initialPassword
    /\ passwordTimer = NoPasswordTimer

(***************************************************************************)
(* Spec: the relay's sockets and broadcasts.                               *)
(***************************************************************************)
Next ==
    \/ \E roomId \in RoomIds : Connect(roomId)
    \/ \E ws \in Sockets, message \in Frames : webSocketMessage(ws, message)
    \/ \E ws \in Sockets : PeerClose(ws)
    \/ \E ws \in Sockets : webSocketClose(ws)
    \/ \E ws \in Sockets : webSocketError(ws)

Spec == Init /\ [][Next]_vars

(***************************************************************************)
(* SpecRoute: every request to /ws/:room, and the sockets' closes.         *)
(***************************************************************************)
NextRoute ==
    \/ \E roomId \in RoomIds, upgrade \in UpgradeHeaders : handleWebSocket(roomId, upgrade)
    \/ \E ws \in Sockets : PeerClose(ws)
    \/ \E ws \in Sockets : webSocketClose(ws)
    \/ \E ws \in Sockets : webSocketError(ws)

SpecRoute == Init /\ [][NextRoute]_vars

(***************************************************************************)
(* SpecChunks: the receiver is handed file_chunk envelopes in any order,   *)
(* any number of times; decryptions settle in any order; timers expire.    *)
(***************************************************************************)
NextChunks ==
    \/ \E payload \in ChunkPayloads :
        BagCardinality(arrivals) < MaxArrivals /\ handleFileChunk(payload)
    \/ \E payload \in MalformedChunks :
        BagCardinality(arrivals) < MaxArrivals /\ handleFileChunk(payload)
    \/ \E call \in BagToSet(pending) : handleFileChunk_resume(call)
    \/ \E ref \in DOMAIN heap : chunkTimeout(ref)

SpecChunks == Init /\ [][NextChunks]_vars

(***************************************************************************)
(* SpecTotals: the receiver is handed the chunks of transfer A and chunks  *)
(* that name A with another total.                                         *)
(***************************************************************************)
NextTotals ==
    \/ \E payload \in TransferA :
        BagCardinality(arrivals) < MaxArrivals /\ handleFileChunk(payload)
    \/ \E payload \in DisagreeingChunks :
        BagCardinality(arrivals) < MaxArrivals /\ handleFileChunk(payload)
    \/ \E call \in BagToSet(pending) : handleFileChunk_resume(call)
    \/ \E ref \in DOMAIN heap : chunkTimeout(ref)

SpecTotals == Init /\ [][NextTotals]_vars

(***************************************************************************)
(* SpecSend: the client sends files; a peer under the same passphrase is   *)
(* handed each chunk envelope once, in any order, and reassembles.  The    *)
(* peer runs the same code: its assembly state is the client's.            *)
(***************************************************************************)
NextSend ==
    \/ \E file \in Files : sendFile(file)
    \/ \E n \in DOMAIN sendRuns : sendFile_read(n)
    \/ \E n \in DOMAIN sendRuns : sendFile_send(n)
    \/ \E k \in DOMAIN sent : peerReceives(k)
    \/ \E call \in BagToSet(pending) : handleFileChunk_resume(call)
    \/ \E ref \in DOMAIN heap : chunkTimeout(ref)

SpecSend == Init /\ [][NextSend]_vars

(***************************************************************************)
(* SpecIncoming: the sockets deliver envelopes of every kind.              *)
(***************************************************************************)
Envelopes ==
    ProperEnvelopes \cup BrokenEnvelopes \cup UnknownTypeEnvelopes \cup OwnEnvelopes

NextIncoming ==
    \/ \E socket \in DOMAIN webSockets, raw \in Envelopes : onMessage(socket, raw)
    \/ \E call \in BagToSet(incoming) : handleIncoming_resume(call)
    \/ \E call \in BagToSet(pending) : handleFileChunk_resume(call)
    \/ \E ref \in DOMAIN heap : chunkTimeout(ref)

SpecIncoming == Init /\ [][NextIncoming]_vars

(***************************************************************************)
(* SpecSession: from the page's load on, the passphrase is edited, the     *)
(* sockets open, fail and close, the reconnect timer goes off, a file is   *)
(* sent in chunks, and the sockets deliver envelopes of an unknown type.   *)
(***************************************************************************)
\* applyPassword(initialPassword), the last statement but one of the script
Startup == passwordVersion = 0 /\ applyPassword(initialPassword)

\* the field is set to value, and the blur listener of the field, or the
\* timer of its input listener, calls applyPassword(value)
Edit(value) ==
    /\ passwordVersion > 0
    /\ applyPassword_call(value)
    /\ secretInput' = value
    /\ UNCHANGED passwordTimer

NextSession ==
    \/ Startup
    \/ \E value \in FieldValues : Edit(value)
    \/ \E run \in applyRuns : applyPassword_derived(run)
    \/ \E run \in applyRuns : applyPassword_hashed(run)
    \/ \E socket \in DOMAIN webSockets : onOpen(socket)
    \/ \E socket \in DOMAIN webSockets : onClose(socket)
    \/ \E socket \in DOMAIN webSockets : onError(socket)
    \/ \E socket \in DOMAIN webSockets, raw \in UnknownTypeEnvelopes : onMessage(socket, raw)
    \/ reconnectTimeout
    \/ \E file \in {File("f2", MAX_CHUNK_BYTES + 1)} : sendFile(file)
    \/ \E n \in DOMAIN sendRuns : sendFile_read(n)
    \/ \E n \in DOMAIN sendRuns : sendFile_send(n)

SpecSession == InitLoad /\ [][NextSession]_vars

(***************************************************************************)
(* SpecHistory: text envelopes arrive while the passphrase is edited.      *)
(***************************************************************************)
TextEnvelopes == {Json(TextEnvelope("k1")), Json(TextEnvelope("k2"))}

NextHistory ==
    \/ \E value \in FieldValues : Edit(value)
    \/ \E run \in applyRuns : applyPassword_derived(run)
    \/ \E run \in applyRuns : applyPassword_hashed(run)
    \/ \E socket \in DOMAIN webSockets : onOpen(socket)
    \/ \E socket \in DOMAIN webSockets, raw \in TextEnvelopes : onMessage(socket, raw)
    \/ \E call \in BagToSet(incoming) : handleIncoming_resume(call)

SpecHistory == Init /\ [][NextHistory]_vars

(***************************************************************************)
(* SpecRetry: the session's sockets alone, with the fairness the page's    *)
(* event loop gives: an armed timer goes off, and an attempt to connect    *)
(* ends, opened or failed.                                                 *)
(***************************************************************************)
NextRetry ==
    \/ Startup
    \/ \E value \in FieldValues : Edit(value)
    \/ \E run \in applyRuns : applyPassword_derived(run)
    \/ \E run \in applyRuns : applyPassword_hashed(run)
    \/ \E socket \in DOMAIN webSockets : onOpen(socket)
    \/ \E socket \in DOMAIN webSockets : onClose(socket)
    \/ \E socket \in DOMAIN webSockets : onError(socket)
    \/ reconnectTimeout

\* the attempt of the current socket ends: the relay accepts or refuses it
Resolves ==
    \E socket \in DOMAIN webSockets :
        /\ IsCurrent(socket)
        /\ webSockets[socket].readyState = "CONNECTING"
        /\ (onOpen(socket) \/ onError(socket))

SpecRetry ==
    InitLoad /\ [][NextRetry]_vars /\ WF_vars(reconnectTimeout) /\ WF_vars(Resolves)

(***************************************************************************)
(* SpecConverge: the passphrase field is typed into and left, its debounce *)
(* timer goes off, sockets fail and the reconnect timer goes off; timers   *)
(* go off and awaited digests settle (weak fairness).  A reconnect leaves  *)
(* the sockets of the model that the applyPassword calls to come need.     *)
(***************************************************************************)
SocketsToCome == (MaxApply - passwordVersion) + (IF applyRuns = {} THEN 0 ELSE 1)

NextConverge ==
    \/ Startup
    \/ \E value \in FieldValues : onInput(value)
    \/ passwordTimeout
    \/ onBlur
    \/ \E run \in applyRuns : applyPassword_derived(run)
    \/ \E run \in applyRuns : applyPassword_hashed(run)
    \/ \E socket \in DOMAIN webSockets : onOpen(socket)
    \/ \E socket \in DOMAIN webSockets : onClose(socket)
    \/ \E socket \in DOMAIN webSockets : onError(socket)
    \/ Len(webSockets) + SocketsToCome < MaxClientSockets /\ reconnectTimeout

Settles ==
    \E run \in applyRuns : applyPassword_derived(run) \/ applyPassword_hashed(run)

SpecConverge ==
    /\ InitLoad
    /\ [][NextConverge]_vars
    /\ WF_vars(Startup)
    /\ WF_vars(passwordTimeout)
    /\ WF_vars(Settles)

(***************************************************************************)
(* Properties of the relay.                                                *)
(***************************************************************************)
\* the sockets whose inbox holds the frame of the n-th webSocketMessage call
Receivers(n) == {s \in Sockets : \E j \in DOMAIN inbox[s] : inbox[s][j].n = n}

\* the n-th call was let through the size check
Accepted(h) == Length(h.text) <= maxMessageSize

\* C1: Broadcast exclusion.  Every accepted (not oversized) message that
\* webSocketMessage handled from socket ws in a room was delivered to exactly
\* the other sockets live in that room at that moment, and never to ws.
C1_BroadcastExclusion ==
    \A k \in DOMAIN handled :
        Accepted(handled[k]) =>
            /\ Receivers(handled[k].n) = handled[k].live \ {handled[k].ws}
            /\ handled[k].ws \notin Receivers(handled[k].n)

\* a message reached two other live sockets of the sender's room
C1_Witness ==
    \E k \in DOMAIN handled :
        /\ Accepted(handled[k])
        /\ handled[k].ws \in handled[k].live
        /\ Cardinality(handled[k].live) = 3
        /\ Cardinality(Receivers(handled[k].n)) = 2

\* C2: Room isolation.  A frame in the inbox of a socket was sent by a socket
\* that the same room accepted: nothing crosses from one room to another.
C2_RoomIsolation ==
    \A s \in Sockets : \A j \in DOMAIN inbox[s] :
        /\ joined[s] = handled[inbox[s][j].n].room
        /\ joined[s] = joined[handled[inbox[s][j].n].ws]

\* a message was delivered in one room while another room had an open socket
C2_Witness ==
    \E k \in DOMAIN handled : \E s, t \in Sockets :
        /\ s \in Receivers(handled[k].n)
        /\ joined[t] # handled[k].room
        /\ readyState[t] = "OPEN"
        /\ IsListed(t)
        /\ inbox[t] = << >>

\* the frame the n-th call delivered to socket s, as a set of texts
DeliveredText(s, n) == {inbox[s][j].text : j \in {i \in DOMAIN inbox[s] : inbox[s][i].n = n}}

C6_FailureTolerance ==
    \A k \in DOMAIN handled :
        LET h == handled[k]
            threw == {s \in Range(h.sockets) : s # h.ws /\ s \notin h.live}
        IN  (Accepted(h) /\ threw # {}) =>
                \A s \in h.live \ {h.ws} : s \in Receivers(h.n)

\* a send threw and a peer later in the loop received the message
C6_Witness ==
    \E k \in DOMAIN handled :
        LET h == handled[k] IN
        /\ Accepted(h)
        /\ \E i, j \in DOMAIN h.sockets :
            /\ i < j
            /\ h.sockets[i] # h.ws
            /\ h.sockets[i] \notin h.live
            /\ h.sockets[j] \in h.live \ {h.ws}
            /\ h.sockets[j] \in Receivers(h.n)

\* C7: Per-room ordering.  Every socket receives the frames of its room in
\* the order webSocketMessage accepted them (n counts the calls), so all
\* peers of a room observe one order.
C7_PerRoomOrdering ==
    \A s \in Sockets : \A i, j \in DOMAIN inbox[s] :
        i < j => inbox[s][i].n < inbox[s][j].n

\* a socket received two messages of two different senders
C7_Witness ==
    \E s \in Sockets :
        /\ Len(inbox[s]) = 2
        /\ handled[inbox[s][1].n].ws # handled[inbox[s][2].n].ws

(***************************************************************************)
(* Properties of the route /ws/:room.                                      *)
(***************************************************************************)
\* ^[a-f0-9]{64}$, lower case only
MatchesLowerHex64(roomId) ==
    /\ Len(roomId) = 64
    /\ \A i \in DOMAIN roomId : roomId[i] \in HexLower \cup HexDigits

\* 64 hexadecimal characters of either case
MatchesAnyCaseHex64(roomId) ==
    /\ Len(roomId) = 64
    /\ \A i \in DOMAIN roomId : roomId[i] \in HexLower \cup HexUpper \cup HexDigits

\* the step delegates the request to the room's object
Delegated(roomId) ==
    /\ idFromName(roomId) \in instances'
    /\ response'.details # "Invalid room id"

\* the step refuses the request before any room object is looked up
RefusedAtRoute ==
    /\ response'.status = 400
    /\ response'.details = "Invalid room id"
    /\ UNCHANGED <<instances, accepted, joined, readyState, closeCode, inbox>>

\* C4, as amended: a request to /ws/:room is delegated to a room's relay only
\* if :room is 64 hexadecimal characters of either case (the pattern is
\* matched ignoring case); every other identifier is refused with 400 before
\* any room instance is looked up or created.
C4_RoomIdValidationAnyCase ==
    [][\A roomId \in RoomIds, upgrade \in UpgradeHeaders :
        handleWebSocket(roomId, upgrade) =>
            IF MatchesAnyCaseHex64(roomId) THEN Delegated(roomId) ELSE RefusedAtRoute]_vars

\* an upper-case identifier has a room, and a malformed one was refused
C4_Witness ==
    /\ idFromName(UpperId) \in instances
    /\ idFromName(LowerId) \in instances
    /\ response.details = "Invalid room id"

\* C4 as stated: delegated only if :room is 64 lower-case hex characters.
C4_RoomIdValidation ==
    [][\A roomId \in RoomIds, upgrade \in UpgradeHeaders :
        handleWebSocket(roomId, upgrade) =>
            IF MatchesLowerHex64(roomId) THEN Delegated(roomId) ELSE RefusedAtRoute]_vars

\* the step leaves every room's sockets as they were
SocketsUnchanged ==
    /\ UNCHANGED <<joined, readyState, closeCode, inbox>>
    /\ \A r \in instances : accepted'[r] = accepted[r]
    /\ \A r \in instances' \ instances : accepted'[r] = << >>

\* the step adds exactly one socket, to the room of roomId
OneSocketAdded(roomId) ==
    /\ Len(readyState') = Len(readyState) + 1
    /\ readyState'[Len(readyState')] = "OPEN"
    /\ \A r \in instances' :
        accepted'[r] =
            IF r = idFromName(roomId)
            THEN Append(IF r \in instances THEN accepted[r] ELSE << >>, Len(readyState'))
            ELSE IF r \in instances THEN accepted[r] ELSE << >>

\* C5: Upgrade gate.  A request to /ws/:room without 'Upgrade: websocket' is
\* answered 400 and registers no socket; a step that registers a socket is an
\* upgrade request, and it registers exactly one.
C5_UpgradeGate ==
    [][/\ \A roomId \in RoomIds, upgrade \in UpgradeHeaders :
            handleWebSocket(roomId, upgrade) =>
                IF upgrade # "websocket"
                THEN response'.status = 400 /\ SocketsUnchanged
                ELSE roomId \in ValidRoomIds =>
                        response'.status = 101 /\ OneSocketAdded(roomId)
       /\ Len(readyState') # Len(readyState) =>
            \E roomId \in RoomIds : AcceptUpgrade(roomId, "websocket") /\ OneSocketAdded(roomId)
      ]_vars

\* a room with an open socket answered 400 to a request that was no upgrade
C5_Witness ==
    /\ response.details = "Expected WebSocket upgrade"
    /\ \E r \in instances : Live(r) # {}
    /\ \E r \in instances : accepted[r] = << >>

(***************************************************************************)
(* Properties of the chunk reassembly.                                     *)
(***************************************************************************)
TransferIds == {p.id : p \in ChunkPayloads}

ChunksOf(id) == {p \in ChunkPayloads : p.id = id}

TotalOf(id) == (CHOOSE p \in ChunksOf(id) : TRUE).total

\* the chunk of transfer id and index i opens under the receiver's key
Opens(p) == p.data.key = cryptoKey

RECURSIVE PlainFrom(_, _)
\* the plaintexts of the transfer's chunks i, i+1, ... in index order
PlainFrom(id, i) ==
    IF i >= TotalOf(id) THEN << >>
    ELSE (CHOOSE p \in ChunksOf(id) : p.index = i).data.plain \o PlainFrom(id, i + 1)

\* the file messages rendered for a transfer
RenderedFor(id) == SelectSeq(messagesEl, LAMBDA m : m.id = id)

\* every chunk of the transfer was handed to handleFileChunk exactly once
DeliveredOnce(id) == \A p \in ChunksOf(id) : CopiesIn(p, arrivals) = 1

\* no handleFileChunk call of the transfer is still awaiting its decryption
Settled(id) == \A call \in BagToSet(pending) : call.payload.id # id

\* no expiry timer of a record of the transfer has fired
NoExpiry(id) == \A ref \in DOMAIN heap : heap[ref].id = id => heap[ref].timer # "fired"

\* C8: Chunk reassembly is order-independent.  When the valid chunks of a
\* transfer were each delivered exactly once, in whatever order and with
\* whatever interleaving of their decryptions, and before the record's
\* expiry, then once the decryptions have settled exactly one completed
\* payload was emitted, the concatenation of the chunks in index order, and
\* the assembly record is released.
C8_OrderIndependentReassembly ==
    \A id \in TransferIds :
        ((\A p \in ChunksOf(id) : Opens(p)) /\ DeliveredOnce(id) /\ Settled(id) /\ NoExpiry(id)) =>
            /\ RenderedFor(id) =
                   <<[id |-> id, failed |-> FALSE, bytes |-> PlainFrom(id, 0),
                      name |-> (CHOOSE p \in ChunksOf(id) : TRUE).name]>>
            /\ id \notin DOMAIN incomingChunks

\* the three chunks of transfer A were delivered once each and A is rendered
C8_Witness ==
    /\ DeliveredOnce("A")
    /\ Settled("A")
    /\ NoExpiry("A")
    /\ Len(RenderedFor("A")) = 1
    /\ RenderedFor("A")[1].bytes = <<1, 2, 3, 4, 5>>

\* the chunk arrives while the record of its transfer holds its index
Redelivery(payload) ==
    /\ payload.id \in DOMAIN incomingChunks
    /\ payload.index \in DOMAIN heap[incomingChunks[payload.id]].chunks
    /\ heap[incomingChunks[payload.id]].chunks[payload.index] # Hole

\* C9: Duplicate chunk rejection.  A chunk handed to handleFileChunk after
\* its index was stored in the transfer's assembly is dropped: the record
\* (its chunks and received count) and what is rendered stay as they were,
\* and no decryption is started for it.
C9_DuplicateRejected ==
    [][\A payload \in ChunkPayloads :
        (Redelivery(payload) /\ handleFileChunk(payload)) =>
            UNCHANGED <<incomingChunks, heap, pending, messagesEl, unhandled>>]_vars

\* chunk 0 of A arrived twice and is stored and counted once
C9_Witness ==
    /\ \E p \in ChunksOf("A") : p.index = 0 /\ CopiesIn(p, arrivals) = 2
    /\ Len(heap) = 1
    /\ heap[1].id = "A"
    /\ heap[1].chunks[0] # Hole
    /\ heap[1].received = 1
    /\ pending = EmptyBag

\* some index of the transfer never opens under the receiver's key
NeverOpens(id) ==
    \E i \in 0..(TotalOf(id) - 1) :
        \A p \in ChunksOf(id) : p.index = i => ~Opens(p)

\* C10: Corrupt chunk aborts transfer.  A transfer one of whose chunk
\* indices fails decryption at every delivery never has a completed payload
\* emitted, whatever the order, duplication and interleaving of its other
\* chunks; and when a decryption fails, the record of that transfer id is
\* discarded in that step and a failed-to-decrypt message is rendered.
C10_CorruptChunkAborts ==
    /\ [](\A id \in TransferIds :
            NeverOpens(id) =>
                \A k \in DOMAIN messagesEl : messagesEl[k].id = id => messagesEl[k].failed)
    /\ [][\A call \in BagToSet(pending) :
            (~Opens(call.payload) /\ handleFileChunk_resume(call)) =>
                /\ call.payload.id \notin DOMAIN incomingChunks'
                /\ messagesEl' = Append(messagesEl,
                       [id |-> call.payload.id, failed |-> TRUE, bytes |-> << >>,
                        name |-> call.payload.name])]_vars

\* chunk 0 of B was stored, chunk 1 failed to decrypt: the record is gone and
\* the failure is rendered
C10_Witness ==
    /\ \E ref \in DOMAIN heap :
        heap[ref].id = "B" /\ heap[ref].received >= 1 /\ heap[ref].chunks[0] # Hole
    /\ \E p \in ChunksOf("B") : p.index = 0 /\ CopiesIn(p, arrivals) = 2
    /\ "B" \notin DOMAIN incomingChunks
    /\ \E k \in DOMAIN messagesEl : messagesEl[k].id = "B" /\ messagesEl[k].failed
    /\ Settled("B")

\* a completed (not failed) file message of the transfer was rendered
Completed(id) ==
    \E k \in DOMAIN messagesEl : messagesEl[k].id = id /\ ~messagesEl[k].failed

\* no chunk of the transfer was handed to handleFileChunk twice
AtMostOnce(id) == \A p \in ChunksOf(id) : CopiesIn(p, arrivals) <= 1

\* a timer of the transfer fired while one of its chunks had not arrived
MissedExpiry(id) == \E i \in 0..(TotalOf(id) - 1) : <<id, i>> \in lapsed

\* C11: Transfer expiry.  When the timer of a transfer's record goes off,
\* the record of that transfer id is discarded in that step; and a transfer
\* that was still missing a chunk at that moment never completes, also when
\* the missing chunk arrives afterwards (no chunk being sent twice).
C11_TransferExpiry ==
    /\ [](\A id \in TransferIds :
            (AtMostOnce(id) /\ MissedExpiry(id)) => ~Completed(id))
    /\ [][\A ref \in DOMAIN heap :
            chunkTimeout(ref) => heap[ref].id \notin DOMAIN incomingChunks']_vars

\* chunks 0 and 1 of A were stored, the timer fired, then chunk 2 arrived and
\* was decrypted into a fresh record: nothing was rendered
C11_Witness ==
    /\ <<"A", 2>> \in lapsed
    /\ DeliveredOnce("A")
    /\ Settled("A")
    /\ \E ref \in DOMAIN heap :
        heap[ref].id = "A" /\ heap[ref].timer = "fired" /\ heap[ref].received = 2
    /\ \E ref \in DOMAIN heap :
        heap[ref].id = "A" /\ heap[ref].chunks[2] # Hole /\ heap[ref].received = 1
    /\ RenderedFor("A") = << >>

\* the step leaves every socket other than ws as it was: its state, its
\* inbox, and its place among the sockets of its room
OthersUntouched(ws) ==
    /\ \A s \in Sockets \ {ws} :
        /\ readyState'[s] = readyState[s]
        /\ closeCode'[s] = closeCode[s]
        /\ inbox'[s] = inbox[s]
    /\ \A r \in instances : Without(accepted'[r], ws) = Without(accepted[r], ws)

\* C18: Close/error cleanup.  A socket that has closed or errored, the
\* sender closed for an oversized frame included, stays closed and receives
\* no frame of any message handled afterwards; and the step in which a
\* socket closes, errors or is closed for an oversized frame changes nothing
\* of the other sockets.
C18_CloseCleanup ==
    [][/\ \A s \in Sockets :
            readyState[s] = "CLOSED" =>
                readyState'[s] = "CLOSED" /\ inbox'[s] = inbox[s]
       /\ \A ws \in Sockets :
            (PeerClose(ws) \/ webSocketClose(ws) \/ webSocketError(ws)) =>
                OthersUntouched(ws)
       /\ \A ws \in Sockets, message \in Frames :
            (webSocketMessage(ws, message) /\ TooLarge(TextOf(message))) =>
                OthersUntouched(ws)]_vars

\* a sender was closed for an oversized frame and is still listed; a later
\* message of the same room reached a peer and not the closed sender
C18_Witness ==
    \E i, j \in DOMAIN handled :
        /\ i < j
        /\ ~Accepted(handled[i])
        /\ closeCode[handled[i].ws] = 1009
        /\ Accepted(handled[j])
        /\ handled[j].room = handled[i].room
        /\ handled[i].ws \in Range(handled[j].sockets)
        /\ Receivers(handled[j].n) # {}
        /\ handled[i].ws \notin Receivers(handled[j].n)

\* the step is a call of handleFileChunk with this envelope
Handed(payload) == arrivals' = arrivals (+) SetToBag({payload})

\* C20: Malformed chunk.  A file_chunk envelope whose total is not a
\* positive integer, whose index is not an integer in [0, total), or whose
\* id is not a string is dropped silently: handleFileChunk creates and
\* changes no assembly record, starts no decryption and renders nothing.
C20_MalformedChunk ==
    [][\A payload \in MalformedChunks :
          Handed(payload) =>
              UNCHANGED <<incomingChunks, heap, pending, messagesEl, unhandled>>]_vars

\* chunk 0 of A is stored in the only record there is, and an envelope of A
\* with index = total was handed over as well
C20_Witness ==
    /\ Len(heap) = 1
    /\ heap[1].id = "A" /\ heap[1].received = 1 /\ heap[1].chunks[0] # Hole
    /\ incomingChunks = MapSet(<< >>, "A", 1)
    /\ \E p \in MalformedChunks : WellFormed_AnyIndex(p) /\ p.index = 3 /\ BagIn(p, arrivals)
    /\ pending = EmptyBag
    /\ messagesEl = << >>

\* the records, the Map entry, the waiting decryptions and the rendered
\* messages of transfer id
RecordsOf(id) == {ref \in DOMAIN heap : heap[ref].id = id}

AllFilled(state) == \A i \in DOMAIN state.chunks : state.chunks[i] # Hole

\* the step leaves everything of transfer id as it was
TransferUntouched(id) ==
    /\ \A ref \in RecordsOf(id) : heap'[ref] = heap[ref]
    /\ \A ref \in DOMAIN heap' : heap'[ref].id = id => ref \in RecordsOf(id)
    /\ (id \in DOMAIN incomingChunks) = (id \in DOMAIN incomingChunks')
    /\ id \in DOMAIN incomingChunks => incomingChunks'[id] = incomingChunks[id]
    /\ \A call \in BagToSet(pending) \cup BagToSet(pending') :
        call.payload.id = id => CopiesIn(call, pending') = CopiesIn(call, pending)
    /\ SelectSeq(messagesEl', LAMBDA m : m.id = id) = RenderedFor(id)

\* handling a chunk of one transfer, at its arrival or when its decryption
\* settles, changes nothing of any other transfer
TransfersIndependent ==
    [][/\ \A payload \in ChunkPayloads :
            Handed(payload) => \A id \in TransferIds \ {payload.id} : TransferUntouched(id)
       /\ \A payload \in MalformedChunks :
            Handed(payload) => \A id \in TransferIds : TransferUntouched(id)
       /\ \A call \in BagToSet(pending) :
            handleFileChunk_resume(call) =>
                \A id \in TransferIds \ {call.payload.id} : TransferUntouched(id)]_vars

\* a record whose indices are all filled has had its completed payload rendered
CompletesWhenFilled ==
    \A ref \in DOMAIN heap : AllFilled(heap[ref]) => Completed(heap[ref].id)

\* C19: Concurrent transfers are independent.  Handling a chunk of one
\* transfer (valid, duplicate, malformed or failing decryption) never changes
\* the assembly record of another, and a transfer completes exactly when its
\* own indices are all filled.
C19_ConcurrentTransfers ==
    /\ TransfersIndependent
    /\ [](/\ CompletesWhenFilled
          /\ \A id \in TransferIds :
                Completed(id) => \E ref \in RecordsOf(id) : AllFilled(heap[ref]))

(***************************************************************************)
(* Properties of sending.                                                  *)
(***************************************************************************)
\* the file_chunk envelopes of transfer id that went out, in the order sent
SentOf(id) ==
    SelectSeq(sent, LAMBDA e : e.payload.type = "file_chunk" /\ e.payload.id = id)

RECURSIVE PlainOf(_)
\* the plaintexts of a sequence of sent envelopes, joined in that order
PlainOf(out) ==
    IF out = << >> THEN << >>
    ELSE Head(out).payload.data.plain \o PlainOf(Tail(out))

\* t is the least number of chunks of at most MAX_CHUNK_BYTES that hold len bytes
IsCeil(t, len) == (t - 1) * MAX_CHUNK_BYTES < len /\ len <= t * MAX_CHUNK_BYTES

\* the sendFile calls that went through sendFileInChunks to their end
ChunkedDone ==
    {n \in DOMAIN sendRuns :
        sendRuns[n].at = "done" /\ sendRuns[n].file.size > MAX_CHUNK_BYTES}

\* the file messages a peer rendered for transfer id
PeerRendered(id) ==
    SelectSeq(messagesEl, LAMBDA m : "id" \in DOMAIN m /\ m.id = id)

\* every envelope of the transfer was handed to the peer, its decryptions
\* have settled and no timer of the transfer fired
AllDelivered(id) ==
    /\ \A k \in DOMAIN SentOf(id) : CopiesIn(SentOf(id)[k].payload, arrivals) = 1
    /\ Settled(id)
    /\ NoExpiry(id)

\* C12: Split/reassemble round trip.  A file of more than MAX_CHUNK_BYTES
\* bytes goes out of sendFileInChunks as exactly ceil(L / MAX_CHUNK_BYTES)
\* envelopes with the indices 0 .. total-1 in order, one id, the same total
\* and name, type and size, each of at most MAX_CHUNK_BYTES plaintext bytes,
\* which joined in index order are the file's bytes with no gap and no
\* overlap; and a peer handed all of them, in any order (the reverse one
\* included), renders one file whose bytes are those of the file.
C12_SplitReassemble ==
    \A n \in ChunkedDone :
        LET run == sendRuns[n]
            out == SentOf(run.id)
        IN  /\ IsCeil(Len(out), run.file.size)
            /\ \A k \in DOMAIN out :
                /\ out[k].payload.index = k - 1
                /\ out[k].payload.total = Len(out)
                /\ out[k].payload.name = run.file.name
                /\ out[k].payload.mime = run.file.type
                /\ out[k].payload.size = run.file.size
                /\ ByteLength(out[k].payload.data.plain) <= MAX_CHUNK_BYTES
                /\ ByteLength(out[k].payload.data.plain) > 0
            /\ Canon(PlainOf(out)) = run.file.bytes
            /\ ByteLength(PlainOf(out)) = run.file.size
            /\ AllDelivered(run.id) =>
                /\ Len(PeerRendered(run.id)) = 1
                /\ ~PeerRendered(run.id)[1].failed
                /\ Canon(PeerRendered(run.id)[1].bytes) = run.file.bytes
                /\ PeerRendered(run.id)[1].name = run.file.name

\* the 1,000,000-byte file went out as 5 envelopes and the peer, handed all
\* five, rendered the file
C12_Witness ==
    \E n \in ChunkedDone :
        /\ sendRuns[n].file.size = 1000000
        /\ Len(SentOf(sendRuns[n].id)) = 5
        /\ AllDelivered(sendRuns[n].id)
        /\ Len(PeerRendered(sendRuns[n].id)) = 1

(***************************************************************************)
(* Properties of the session.                                              *)
(***************************************************************************)
\* what the client holds besides the sockets themselves and the count of
\* delivered envelopes
ClientState ==
    <<cryptoKey, incomingChunks, heap, pending, messagesEl, unhandled,
      passwordVersion, currentPassword, currentRoomId, clientWs, statusEl, reconnectTimer,
      applyRuns, sendRuns, sent, messageStore, localStorage, renderRuns, incoming>>

\* C13: Single channel.  connect() closes the prior socket before it makes
\* the new one, so every socket other than the current one is closing or
\* closed; and an open, message, close or error event of a socket other
\* than the current one changes nothing of the client: no state, nothing
\* rendered, no reconnect scheduled.
C13_SingleChannel ==
    /\ [](/\ clientWs \in {0} \cup DOMAIN webSockets
          /\ \A socket \in DOMAIN webSockets :
                socket # clientWs => webSockets[socket].readyState \in {"CLOSING", "CLOSED"})
    /\ [][\A socket \in DOMAIN webSockets :
            (/\ socket # clientWs
             /\ \/ onOpen(socket) \/ onClose(socket) \/ onError(socket)
                \/ \E raw \in UnknownTypeEnvelopes : onMessage(socket, raw))
            => UNCHANGED ClientState]_vars

\* after a passphrase change the first socket, of the other room, has closed
\* and an envelope was delivered; no reconnect was ever scheduled, nothing
\* is rendered and the second socket is open
C13_Witness ==
    /\ Len(webSockets) = 2
    /\ clientWs = 2
    /\ webSockets[1].readyState = "CLOSED"
    /\ webSockets[1].url # webSockets[2].url
    /\ webSockets[2].readyState = "OPEN"
    /\ received >= 1
    /\ messagesEl = << >>
    /\ reconnectTimer = NoTimer
    /\ statusEl = "connected"

\* the checks sendMessage and sendFile make before they send
CanSend ==
    /\ cryptoKey # NoKey
    /\ currentRoomId # << >>
    /\ clientWs # 0
    /\ webSockets[clientWs].readyState = "OPEN"

\* an envelope the current socket delivers is handed to handleIncoming and decrypted
CanReceive ==
    /\ cryptoKey # NoKey
    /\ clientWs # 0
    /\ webSockets[clientWs].readyState = "OPEN"

\* C16: Key and room change together.  In every state in which a message
\* can be sent or received, the key, the room fingerprint and the room of
\* the current socket are derived from one passphrase.
C16_KeyAndRoomTogether ==
    (CanSend \/ CanReceive) =>
        /\ currentRoomId = hashRoomId(PasswordOfKey(cryptoKey))
        /\ webSockets[clientWs].url = currentRoomId

\* the sendFile call that drew transfer id
RunOf(id) == CHOOSE n \in DOMAIN sendRuns : sendRuns[n].id = id

\* C17: Cancellation on room switch.  No chunk of a transfer that started
\* in a room, with no passphrase change under way, is sent on the channel of
\* another room: once a later passphrase change has replaced the channel,
\* the rest of the transfer is not sent.
C17_CancelOnSwitch ==
    \A k \in DOMAIN sent :
        (/\ sent[k].payload.type = "file_chunk"
         /\ sendRuns[RunOf(sent[k].payload.id)].settled)
        => webSockets[sent[k].socket].url = sendRuns[RunOf(sent[k].payload.id)].room

\* what a malformed envelope may not touch: the view, the history in memory
\* and in storage, the waiting decryptions and the assembly records
receiveState == <<messagesEl, messageStore, localStorage, incoming, assemblyVars>>

Lost(n) ==
    /\ clientWs = n
    /\ webSockets[n].readyState = "CLOSED"
    /\ currentRoomId # << >>

\* the current socket is open
Established == clientWs # 0 /\ webSockets[clientWs].readyState = "OPEN"

\* C14: Reconnect.  When the current socket closes or fails while a room is
\* active, the timer is armed with the fixed delay of 2000 ms, whatever
\* failed before; the current socket is always one of the current room; a
\* lost socket is followed by a new attempt, and the attempts go on until one
\* is open (here: or until the last socket of the model has been made).
C14_Reconnect ==
    /\ [][\A socket \in DOMAIN webSockets :
             (/\ onClose(socket) \/ onError(socket)
              /\ IsCurrent(socket)
              /\ currentRoomId # << >>)
             => reconnectTimer' = [state |-> "armed", delay |-> 2000]]_vars
    /\ [](clientWs # 0 => webSockets[clientWs].url = currentRoomId)
    /\ \A n \in 1 .. MaxClientSockets :
          [](Lost(n) => reconnectTimer.state = "armed")
    /\ \A n \in 1 .. MaxClientSockets - 1 :
          /\ Lost(n) ~> (Len(webSockets) > n)
          /\ Lost(n) ~> (Established \/ Len(webSockets) = MaxClientSockets)

\* the second socket was lost too and the third, made by the timer for the
\* room of the session, is now connecting
C14_Witness ==
    /\ Len(webSockets) = 3
    /\ clientWs = 3
    /\ passwordVersion = 1
    /\ webSockets[1].readyState = "CLOSED"
    /\ webSockets[2].readyState = "CLOSED"
    /\ webSockets[3] = [url |-> currentRoomId, readyState |-> "CONNECTING"]
    /\ reconnectTimer = [state |-> "fired", delay |-> RECONNECT_DELAY]

(***************************************************************************)
(* Properties of the chunk reassembly, continued.                          *)
(***************************************************************************)
\* the transfer of the envelope has a record whose total is another one
Disagrees(payload) ==
    /\ payload.id \in DOMAIN incomingChunks
    /\ heap[incomingChunks[payload.id]].total # payload.total

\* C21: Total-count disagreement.  A chunk that declares another total than
\* the record of its transfer id holds is dropped: the record (total,
\* received count, stored chunks, metadata, timer) and the Map stay as they
\* were, no record is made, no decryption is started, nothing is rendered.
C21_TotalDisagreement ==
    [][\A payload \in TransferA \cup DisagreeingChunks :
          (Disagrees(payload) /\ Handed(payload)) =>
              UNCHANGED <<incomingChunks, heap, pending, messagesEl, unhandled>>]_vars

\* the record of A has total 3 and holds chunk 0; a chunk of A that declares
\* total 2 was handed over as well
C21_Witness ==
    /\ Len(heap) = 1
    /\ heap[1].total = 3 /\ heap[1].received = 1 /\ heap[1].chunks[0] # Hole
    /\ heap[1].timer = "armed"
    /\ incomingChunks = MapSet(<< >>, "A", 1)
    /\ \E p \in DisagreeingChunks : p.index = 1 /\ BagIn(p, arrivals)
    /\ pending = EmptyBag
    /\ messagesEl = << >>

\* the step renders a completed (not failed) file message
EmitsCompleted ==
    /\ Len(messagesEl') = Len(messagesEl) + 1
    /\ ~messagesEl'[Len(messagesEl')].failed

\* C22: Expiry discards for good.  The timer of a record that is still
\* incomplete removes the record of its transfer id from the Map and renders
\* nothing; and a record whose timer has fired never afterwards emits a
\* completed payload, also not when a chunk that arrived before the expiry
\* is decrypted after it.
C22_ExpiryForGood ==
    [][/\ \A ref \in DOMAIN heap :
            chunkTimeout(ref) =>
                /\ heap[ref].id \notin DOMAIN incomingChunks'
                /\ messagesEl' = messagesEl
       /\ \A call \in BagToSet(pending) :
            (heap[call.state].timer = "fired" /\ handleFileChunk_resume(call))
                => ~EmitsCompleted]_vars

(***************************************************************************)
(* Properties of the session, continued.                                   *)
(***************************************************************************)
\* what an applyPassword call writes after its awaits: the key, the room,
\* the history in view and the socket
sessionState ==
    <<cryptoKey, currentRoomId, messagesEl, messageStore, renderRuns, clientWs, webSockets,
      statusEl>>

\* C23: Stale session no-op.  An applyPassword call that resumes from one of
\* its awaits after a newer call has started writes neither the key nor the
\* room id, resets no history and opens no connection.
C23_StaleNoOp ==
    [][\A run \in applyRuns :
          (/\ run.version < passwordVersion
           /\ applyPassword_derived(run) \/ applyPassword_hashed(run))
          => UNCHANGED sessionState]_vars

\* the page started under the default passphrase, the field was edited to
\* "a" before the first call resumed, the first call has ended without a
\* trace and the second one has connected to the room of "a"
C23_Witness ==
    /\ passwordVersion = 2
    /\ applyRuns = {}
    /\ currentPassword = <<"a">>
    /\ cryptoKey = deriveKey(<<"a">>)
    /\ currentRoomId = hashRoomId(<<"a">>)
    /\ Len(webSockets) = 1
    /\ webSockets[1].url = hashRoomId(<<"a">>)

(***************************************************************************)
(* Properties of sending, continued.                                       *)
(***************************************************************************)
\* C24: Frame fits the relay.  No envelope that sendFile or sendFileInChunks
\* put on a socket is one the relay's webSocketMessage finds too large: its
\* plaintext has at most MAX_CHUNK_BYTES bytes and its JSON text, with the
\* tag, the base64 expansion and the other fields, at most 1,000,000 units.
C24_FrameFits ==
    \A k \in DOMAIN sent :
        /\ ByteLength(sent[k].payload.data.plain) <= 245760
        /\ JsonLength(sent[k].payload) <= 1000000
        /\ ~TooLarge(TextOf(FrameOf(sent[k].payload)))

\* a full chunk of 245,760 bytes went out, in a frame of more than 327,704
\* units, and its transfer has ended
C24_Witness ==
    /\ \E k \in DOMAIN sent :
        /\ sent[k].payload.type = "file_chunk"
        /\ ByteLength(sent[k].payload.data.plain) = MAX_CHUNK_BYTES
        /\ JsonLength(sent[k].payload) > 327704
    /\ \E n \in DOMAIN sendRuns :
        /\ sendRuns[n].at = "done"
        /\ sendRuns[n].total >= 2

\* the number of slots of the record that hold a chunk
FilledSlots(state) == Cardinality({i \in DOMAIN state.chunks : state.chunks[i] # Hole})

\* C25: Received-count invariant.  In every assembly record, received is the
\* number of filled slots, also while several chunks of the transfer, two
\* copies of one index included, are being decrypted at once.
C25_ReceivedCount ==
    \A ref \in DOMAIN heap : heap[ref].received = FilledSlots(heap[ref])

\* C26: No emission with a hole.  Only the step in which a decryption
\* settles emits a completed payload, and only when every slot of the record
\* is filled then, the payload being the slots in order; the step takes the
\* record's received count from below its total to its total, and no step
\* lowers a received count, so a record emits at most once.
C26_NoHoleOnce ==
    /\ [][\A call \in BagToSet(pending) :
            (handleFileChunk_resume(call) /\ EmitsCompleted) =>
                /\ AllFilled(heap'[call.state])
                /\ messagesEl'[Len(messagesEl')].bytes = Merged(heap'[call.state].chunks)
                /\ heap[call.state].received < heap[call.state].total
                /\ heap'[call.state].received = heap[call.state].total]_vars
    /\ [][EmitsCompleted => \E call \in BagToSet(pending) : handleFileChunk_resume(call)]_vars
    /\ [][\A ref \in DOMAIN heap : heap'[ref].received >= heap[ref].received]_vars

\* A was rendered once, from a record whose slots are all filled, though one
\* of its chunks arrived twice
C26_Witness ==
    /\ \E ref \in RecordsOf("A") : AllFilled(heap[ref]) /\ heap[ref].received = 3
    /\ Len(RenderedFor("A")) = 1
    /\ \E p \in ChunksOf("A") : CopiesIn(p, arrivals) = 2
    /\ Settled("A")

\* C27: Expiry timer hits only its own record.  When the timer of a record
\* goes off while the Map holds another, later record under the same
\* transfer id, the Map is left as it is.
C27_OwnRecordOnly ==
    [][\A ref \in DOMAIN heap :
          (/\ chunkTimeout(ref)
           /\ heap[ref].id \in DOMAIN incomingChunks
           /\ incomingChunks[heap[ref].id] # ref)
          => incomingChunks' = incomingChunks]_vars

\* C28: Sent envelopes match their room.  Every envelope put on a socket was
\* sealed under the key of the passphrase whose fingerprint is the room the
\* socket is addressed to.
C28_SentMatchesRoom ==
    \A k \in DOMAIN sent :
        hashRoomId(PasswordOfKey(sent[k].payload.data.key)) = webSockets[sent[k].socket].url

\* C29: History stays per room.  A handleIncoming call resumes from its
\* decryption in another room than the one its envelope arrived in: it
\* renders nothing into the view and appends nothing to messageStore or to
\* the history in localStorage.
C29_HistoryPerRoom ==
    [][\A call \in BagToSet(incoming) :
          (call.room # currentRoomId /\ handleIncoming_resume(call))
          => UNCHANGED <<messagesEl, messageStore, localStorage>>]_vars

\* key and room are those of the passphrase, and the current socket is
\* addressed to that room
Converged(password) ==
    /\ cryptoKey = deriveKey(password)
    /\ currentRoomId = hashRoomId(password)
    /\ clientWs # 0
    /\ webSockets[clientWs].url = hashRoomId(password)

\* no applyPassword call is under way and the debounce timer is not armed
Quiescent ==
    /\ passwordVersion > 0
    /\ applyRuns = {}
    /\ passwordTimer.state # "armed"

\* C30: Session convergence.  Whenever no applyPassword call is under way
\* and no debounce timer is armed, key, room and current socket are those
\* of the passphrase in the field; and every behaviour reaches a point from
\* which on no call is under way and key, room and current socket are those
\* of the passphrase applied last.
C30_Convergence ==
    /\ [](Quiescent => Converged(normalizePassword(secretInput)))
    /\ <>[](/\ passwordVersion > 0
            /\ applyRuns = {}
            /\ Converged(currentPassword))

\* the field was typed into after the page's start, the timer has gone off,
\* a socket was lost and replaced by the reconnect timer meanwhile, and the
\* session is that of the passphrase in the field
C30_Witness ==
    /\ Quiescent
    /\ passwordVersion = 2
    /\ passwordTimer = [state |-> "fired", value |-> <<"b", " ">>]
    /\ secretInput = <<"b", " ">>
    /\ Converged(<<"b">>)
    /\ reconnectTimer.state = "fired"
    /\ Len(webSockets) = 3

====
